---- MODULE Spec2Model ----
(***************************************************************************)
(* Book browser (apps/explore/src/App.vue) of book-bans-2025: the loaded   *)
(* record array, the selection state, the filter, the facet counts and     *)
(* the pagination, as a state machine over the UI's event handlers; the    *)
(* map app (main.js, InfoPanel.js): its load, its click, wheel and timer   *)
(* handlers and its info panel; and the by-state report: its load and its  *)
(* analyzeData.                                                            *)
(*                                                                         *)
(* Strings that the code inspects character by character (title, author,   *)
(* search query) are sequences of one-character strings; strings that are  *)
(* only compared for equality (subjects, states, districts) are strings.   *)
(* A JSON value that may or may not be an array is a record with a "type"  *)
(* field; an absent field is absent from the record's DOMAIN.              *)
(***************************************************************************)
EXTENDS Integers, Sequences, FiniteSets, TLC

VARIABLES
  \* the book browser (apps/explore/src/App.vue)
  books, loading, selectedSubjects, selectedStates, selectedDistricts,
  searchQuery, statesSortBy, districtsSortBy, subjectsSortBy,
  currentPage, selectedBook, showLoadPrompt, dataLoaded, fetchState,
  \* the file served at data.json, which every front-end fetches
  dataJson,
  \* the map app (main.js): the welcome modal and the spinner, the two
  \* fetches, the promise chain, the loaded data, the call of initializeMap
  welcomeHidden, spinnerHidden, spinnerHTML, geoFetch, dataFetch, mapChain,
  booksData, windowBooksData, initializeMapArg,
  \* the map after initializeMap: the layers drawn so far
  mapLayers,
  \* the map's info panel (InfoPanel.js data) and the hidden class of
  \* #info-panel
  selectedItem, itemType, bannedBooks, panelSelectedSubjects,
  selectedBanStatus, selectedPopularityLevels, panelSelectedBook,
  showingDistrictSelection, districtChoices, infoPanelHidden,
  \* the map's zoom (main.js 459-462) and the pending callbacks of setTimeout
  currentZoomIndex, currentTransform, accumulatedDelta, zoomTimeouts,
  \* the by-state report: the content of #app, its fetch, the analysis
  reportAppHTML, reportFetch, reportStateData

browserVars ==
  <<books, loading, selectedSubjects, selectedStates, selectedDistricts,
    searchQuery, statesSortBy, districtsSortBy, subjectsSortBy,
    currentPage, selectedBook, showLoadPrompt, dataLoaded, fetchState,
    dataJson>>

\* what the map's load handler writes
loadVars ==
  <<welcomeHidden, spinnerHidden, spinnerHTML, geoFetch, dataFetch, mapChain,
    booksData, windowBooksData, initializeMapArg>>

panelVars ==
  <<selectedItem, itemType, bannedBooks, panelSelectedSubjects,
    selectedBanStatus, selectedPopularityLevels, panelSelectedBook,
    showingDistrictSelection, districtChoices, infoPanelHidden>>

zoomVars == <<currentZoomIndex, currentTransform, accumulatedDelta, zoomTimeouts>>

\* what the map's load handler leaves alone
viewVars == <<mapLayers, panelVars, zoomVars>>

mapVars == <<loadVars, viewVars>>

reportVars == <<reportAppHTML, reportFetch, reportStateData>>

\* what the handlers of the book browser never touch
outsideBrowser == <<mapVars, reportVars>>

vars == <<browserVars, mapVars, reportVars>>

(***************************************************************************)
(* Bounds of the model and constants of the program.                       *)
(***************************************************************************)
\* longest dataset built from every combination of the sample books
MaxBooks == 2
\* length of the longest bulk dataset (several pages of books)
MaxBulk == 250
\* length of the longest dataset of the map
MaxMapBooks == 9
\* most callbacks of setTimeout that wait at once
MaxTimeouts == 2
\* longest dataset of the report
MaxReportBooks == 2
\* App.vue:14
itemsPerPage == 100

null == [null |-> TRUE]

(***************************************************************************)
(* The input data: JSON values of /data.json.                              *)
(***************************************************************************)
Arr(items) == [type |-> "array", items |-> items]
Str(s) == [type |-> "string", str |-> s]
Ban(s, d) == [state |-> s, district |-> d]

\* one ban; title and author present
BookA ==
  [id |-> 1, title |-> <<"A", "b">>, author |-> <<"c">>,
   subjects |-> Arr(<<"Fiction">>),
   bans |-> Arr(<<Ban("TX", "d1")>>)]
\* a repeated subject; bans in raw "Nation" and raw "DoDEA"; no author
BookB ==
  [id |-> 2, title |-> <<"B">>,
   subjects |-> Arr(<<"Fiction", "Fiction", "LGBTQ">>),
   bans |-> Arr(<<Ban("Nation", "d2"), Ban("DoDEA", "d2")>>)]
\* two bans in one district and one in another; a raw "Nation" ban only; no
\* title
BookC ==
  [id |-> 3, author |-> <<"a", "B">>,
   subjects |-> Arr(<<"LGBTQ", "LGBTQ">>),
   bans |-> Arr(<<Ban("Nation", "d1"), Ban("TX", "d1"), Ban("TX", "d2")>>)]
\* neither subjects nor bans
BookD ==
  [id |-> 4, title |-> <<"a">>, author |-> <<"C">>]
\* subjects a bare string, bans an empty array
BookE ==
  [id |-> 5, title |-> <<"c">>, author |-> <<"A">>,
   subjects |-> Str("Fiction"),
   bans |-> Arr(<<>>)]

SampleBooks == {BookA, BookB, BookC, BookD, BookE}

SeqsUpTo(S, n) == UNION {[1..k -> S] : k \in 0..n}

\* a long dataset: the pattern repeated up to n books
Bulk(pattern, n) == [i \in 1..n |-> pattern[((i - 1) % Len(pattern)) + 1]]

BulkSizes == {2 * itemsPerPage, 2 * itemsPerPage + 1, MaxBulk}

\* the sequences of distinct elements (book ids are list keys)
Distinct(seqs) ==
  {s \in seqs : \A i, j \in 1..Len(s) : s[i] = s[j] => i = j}

\* every short dataset, and a long one of books without subjects and bans
Datasets ==
  Distinct(SeqsUpTo(SampleBooks, MaxBooks)) \cup {Bulk(<<BookD>>, 2 * itemsPerPage + 1)}

\* long datasets whose books differ in ban count and facet values
BulkDatasets == {Bulk(<<BookA, BookD>>, n) : n \in BulkSizes}

\* what the user may type in the search box
Queries == {<<>>, <<"a">>, <<"B">>, <<"a", "B">>}

(***************************************************************************)
(* Library functions of the language, as far as the code uses them.        *)
(***************************************************************************)
\* String.prototype.toLowerCase, on the letters the data uses
LowerChar(c) ==
  CASE c = "A" -> "a"
    [] c = "B" -> "b"
    [] c = "C" -> "c"
    [] OTHER -> c
toLowerCase(s) == [i \in 1..Len(s) |-> LowerChar(s[i])]

\* String.prototype.includes: q occurs in s as a contiguous substring
includes(s, q) ==
  \E i \in 0..(Len(s) - Len(q)) : SubSeq(s, i + 1, i + Len(q)) = q

\* Array.isArray(book[field]); an absent field is undefined
IsArray(book, field) ==
  /\ field \in DOMAIN book
  /\ book[field].type = "array"

\* Array.prototype.includes on an array of strings
ArrayIncludes(arr, v) == \E i \in 1..Len(arr) : arr[i] = v

\* mutant: the array itself, repeated values kept
MutUniqueSeqKeepAll(arr) == arr

\* new Set(arr), iterated: the distinct values in order of first occurrence
RECURSIVE UniqueSeq(_)
UniqueSeq(arr) ==
  IF arr = <<>> THEN <<>>
  ELSE LET front == UniqueSeq(SubSeq(arr, 1, Len(arr) - 1))
           last == arr[Len(arr)]
       IN IF ArrayIncludes(front, last) THEN front ELSE Append(front, last)

\* Array.prototype.sort(cmp) is stable (ECMAScript 2019, 23.1.3.30).  Modelled
\* as a binary insertion sort: each element in turn goes behind every element
\* already placed that does not compare greater than it.  The comparator is a
\* function on pairs.
InsertSorted(sorted, x, cmp) ==
  LET \* the number of leading elements e of sorted[lo+1..hi] with cmp(e, x) <= 0,
      \* plus lo
      RECURSIVE Pos(_, _)
      Pos(lo, hi) ==
        IF lo = hi THEN lo
        ELSE LET mid == (lo + hi) \div 2
             IN IF cmp[<<sorted[mid + 1], x>>] > 0 THEN Pos(lo, mid) ELSE Pos(mid + 1, hi)
      p == Pos(0, Len(sorted))
  IN SubSeq(sorted, 1, p) \o <<x>> \o SubSeq(sorted, p + 1, Len(sorted))

SortBy(s, cmp) ==
  LET \* acc with s[lo..hi] inserted one after the other
      RECURSIVE Ins(_, _, _)
      Ins(acc, lo, hi) ==
        IF lo > hi THEN acc
        ELSE IF lo = hi THEN InsertSorted(acc, s[lo], cmp)
        ELSE LET mid == (lo + hi) \div 2
                 left == Ins(acc, lo, mid)
             \* the test makes TLC evaluate left before it goes on
             IN IF Len(left) >= 0 THEN Ins(left, mid + 1, hi) ELSE left
  IN Ins(<<>>, 1, Len(s))

(***************************************************************************)
(* filteredBooks (App.vue 43-90).  Books are objects: the filter and the   *)
(* sort handle references, modelled as positions in the books array.       *)
(***************************************************************************)
\* mutant: the raw state, "Nation" left as it is
MutNormalizeStateRaw(state) == state

\* ban.state === 'Nation' ? 'DoDEA' : ban.state
NormalizeState(state) == IF state = "Nation" THEN "DoDEA" ELSE state

\* mutant: the fields compared as they are, not lower-cased
MutMatchesSearchCaseSensitive(book, q) ==
  LET query == toLowerCase(q)
  IN \/ "title" \in DOMAIN book /\ includes(book.title, query)
     \/ "author" \in DOMAIN book /\ includes(book.author, query)

\* lines 46-52, for a non-empty query
MatchesSearch(book, q) ==
  LET query == toLowerCase(q)
  IN \/ "title" \in DOMAIN book /\ includes(toLowerCase(book.title), query)
     \/ "author" \in DOMAIN book /\ includes(toLowerCase(book.author), query)

\* mutant: some selected subject instead of every one
MutHasAnySubject(book, selected) ==
  \E k \in 1..Len(selected) : ArrayIncludes(book.subjects.items, selected[k])

\* lines 57-59: selectedSubjects.every(s => book.subjects.includes(s))
HasAllSubjects(book, selected) ==
  \A k \in 1..Len(selected) : ArrayIncludes(book.subjects.items, selected[k])

\* mutant: only the state selected first is required
MutHasAllStatesFirst(book, selected) ==
  \A k \in 1..Len(selected) :
    k = 1 =>
      \E j \in 1..Len(book.bans.items) :
        NormalizeState(book.bans.items[j].state) = selected[k]

\* lines 66-68
HasAllStates(book, selected) ==
  \A k \in 1..Len(selected) :
    \E j \in 1..Len(book.bans.items) :
      NormalizeState(book.bans.items[j].state) = selected[k]

\* mutant: some selected district instead of every one
MutHasAnyDistrict(book, selected) ==
  \E k \in 1..Len(selected) :
    \E j \in 1..Len(book.bans.items) :
      book.bans.items[j].district = selected[k]

\* lines 75-77
HasAllDistricts(book, selected) ==
  \A k \in 1..Len(selected) :
    \E j \in 1..Len(book.bans.items) :
      book.bans.items[j].district = selected[k]

\* mutant: the test for an array of bans made outside the state clause
MutPassesRequiresBans(book, q, subjects, states, districts) ==
  /\ q # <<>> => MatchesSearch(book, q)
  /\ Len(subjects) > 0 => (IsArray(book, "subjects") /\ HasAllSubjects(book, subjects))
  /\ IsArray(book, "bans")
  /\ Len(states) > 0 => HasAllStates(book, states)
  /\ Len(districts) > 0 => HasAllDistricts(book, districts)

\* the callback of books.value.filter, lines 44-82
Passes(book, q, subjects, states, districts) ==
  /\ q # <<>> => MatchesSearch(book, q)
  /\ Len(subjects) > 0 => (IsArray(book, "subjects") /\ HasAllSubjects(book, subjects))
  /\ Len(states) > 0 => (IsArray(book, "bans") /\ HasAllStates(book, states))
  /\ Len(districts) > 0 => (IsArray(book, "bans") /\ HasAllDistricts(book, districts))

\* lines 86-87
BanCount(book) == IF IsArray(book, "bans") THEN Len(book.bans.items) ELSE 0

\* mutant: a comparator that never answers 0
MutCompareBansNoTie(a, b) == IF BanCount(b) >= BanCount(a) THEN 1 ELSE -1

\* mutant: aBans - bBans
MutCompareBansAscending(a, b) == BanCount(a) - BanCount(b)

\* lines 85-89: the comparator, bBans - aBans
CompareBans(a, b) == BanCount(b) - BanCount(a)

\* Array.prototype.filter: the passing references, in array order
FilterRefs(bks, q, subjects, states, districts) ==
  SelectSeq([i \in 1..Len(bks) |-> i],
            LAMBDA i : Passes(bks[i], q, subjects, states, districts))

\* the whole computed: filter, then sort the fresh array by ban count
FilterSort(bks, q, subjects, states, districts) ==
  SortBy(FilterRefs(bks, q, subjects, states, districts),
         [p \in Int \X Int |-> CompareBans(bks[p[1]], bks[p[2]])])

filteredRefs ==
  FilterSort(books, searchQuery, selectedSubjects, selectedStates, selectedDistricts)

Deref(bks, refs) == [i \in 1..Len(refs) |-> bks[refs[i]]]

filteredBooks == Deref(books, filteredRefs)

(***************************************************************************)
(* Pagination (App.vue 92-104).                                            *)
(***************************************************************************)
\* mutant: Math.floor(x / y)
MutFloor(x, y) == x \div y

\* Math.ceil(x / y) for x >= 0, y > 0
Ceil(x, y) == (x + y - 1) \div y

totalPages == Ceil(Len(filteredBooks), itemsPerPage)

\* Array.prototype.slice(start, end) for 0 <= start <= end, 0-based, end excluded
Slice(s, start, end) ==
  SubSeq(s, start + 1, IF end < Len(s) THEN end ELSE Len(s))

\* mutant: the page number taken as 0-based
MutPageOfZeroBased(fb, page) ==
  LET start == page * itemsPerPage
      end == start + itemsPerPage
  IN Slice(fb, start, end)

\* lines 95-99
PageOf(fb, page) ==
  LET start == (page - 1) * itemsPerPage
      end == start + itemsPerPage
  IN Slice(fb, start, end)

paginatedBooks == PageOf(filteredBooks, currentPage)

(***************************************************************************)
(* Facet counts (App.vue 106-148).  A counts object is the sequence of its *)
(* entries in insertion order, which is the order Object.keys lists them.  *)
(***************************************************************************)
HasKey(counts, key) == \E i \in 1..Len(counts) : counts[i].key = key

\* counts[key] || 0
CountOf(counts, key) ==
  IF HasKey(counts, key)
  THEN counts[CHOOSE i \in 1..Len(counts) : counts[i].key = key].n
  ELSE 0

\* counts[key] = (counts[key] || 0) + 1
Increment(counts, key) ==
  IF HasKey(counts, key)
  THEN [i \in 1..Len(counts) |->
          IF counts[i].key = key THEN [counts[i] EXCEPT !.n = @ + 1] ELSE counts[i]]
  ELSE Append(counts, [key |-> key, n |-> 1])

\* the forEach over one book's Set of values
IncrementAll(counts, values) ==
  LET RECURSIVE F(_)
      F(k) == IF k = 0 THEN counts ELSE Increment(F(k - 1), values[k])
  IN F(Len(values))

\* the forEach over filteredBooks; sets[k] is the Set of the k-th book, empty
\* when the book's field is not an array
CountFacet(sets) ==
  LET \* counts after the books lo..hi were visited in order
      RECURSIVE F(_, _, _)
      F(counts, lo, hi) ==
        IF lo > hi THEN counts
        ELSE IF lo = hi THEN IncrementAll(counts, sets[lo])
        ELSE LET mid == (lo + hi) \div 2
                 left == F(counts, lo, mid)
             \* the test makes TLC evaluate left before it goes on
             IN IF Len(left) >= 0 THEN F(left, mid + 1, hi) ELSE left
  IN F(<<>>, 1, Len(sets))

\* mutant: subjects that is one string counted as that one subject
MutUniqueSubjectsCoerce(book) ==
  IF IsArray(book, "subjects") THEN UniqueSeq(book.subjects.items)
  ELSE IF "subjects" \in DOMAIN book /\ book.subjects.type = "string"
       THEN <<book.subjects.str>>
       ELSE <<>>

\* line 113: new Set(book.subjects)
UniqueSubjects(book) ==
  IF IsArray(book, "subjects") THEN UniqueSeq(book.subjects.items) ELSE <<>>

\* mutant: the Set of the raw states
MutUniqueStatesRaw(book) ==
  IF IsArray(book, "bans")
  THEN UniqueSeq([j \in 1..Len(book.bans.items) |-> book.bans.items[j].state])
  ELSE <<>>

\* line 127: new Set(book.bans.map(ban => normalized state))
UniqueStates(book) ==
  IF IsArray(book, "bans")
  THEN UniqueSeq([j \in 1..Len(book.bans.items) |->
                    NormalizeState(book.bans.items[j].state)])
  ELSE <<>>

\* mutant: the districts of the bans one by one, without the Set
MutUniqueDistrictsPerBan(book) ==
  IF IsArray(book, "bans")
  THEN [j \in 1..Len(book.bans.items) |-> book.bans.items[j].district]
  ELSE <<>>

\* line 141: new Set(book.bans.map(ban => ban.district))
UniqueDistricts(book) ==
  IF IsArray(book, "bans")
  THEN UniqueSeq([j \in 1..Len(book.bans.items) |-> book.bans.items[j].district])
  ELSE <<>>

SubjectCountsOf(fb) == CountFacet([k \in 1..Len(fb) |-> UniqueSubjects(fb[k])])
StateCountsOf(fb) == CountFacet([k \in 1..Len(fb) |-> UniqueStates(fb[k])])
DistrictCountsOf(fb) == CountFacet([k \in 1..Len(fb) |-> UniqueDistricts(fb[k])])

\* mutant: the counts of the whole dataset
MutSubjectCountsAllBooks == SubjectCountsOf(books)

subjectCounts == SubjectCountsOf(filteredBooks)
stateCounts == StateCountsOf(filteredBooks)
districtCounts == DistrictCountsOf(filteredBooks)

(***************************************************************************)
(* Facet display lists (App.vue 150-173).                                  *)
(***************************************************************************)
\* the facet values of the data in UTF-16 code unit order, the order of the
\* default comparator of Array.prototype.sort
CodeUnitOrder == <<"DoDEA", "Fiction", "LGBTQ", "Nation", "TX", "d1", "d2">>
Rank(str) == CHOOSE i \in 1..Len(CodeUnitOrder) : CodeUnitOrder[i] = str
CompareStrings(a, b) == Rank(a) - Rank(b)

\* mutant: the alphabetical mode leaves the keys in insertion order
MutFacetListAlphaUnsorted(counts, sortBy) ==
  LET keys == [i \in 1..Len(counts) |-> counts[i].key]
      shown == SelectSeq(keys, LAMBDA k : CountOf(counts, k) > 0)
  IN IF sortBy = "count"
     THEN SortBy(shown, [p \in STRING \X STRING |->
                          CountOf(counts, p[2]) - CountOf(counts, p[1])])
     ELSE shown

\* Object.keys(counts).filter(k => counts[k] > 0), then sorted by the mode
FacetList(counts, sortBy) ==
  LET keys == [i \in 1..Len(counts) |-> counts[i].key]
      shown == SelectSeq(keys, LAMBDA k : CountOf(counts, k) > 0)
  IN IF sortBy = "count"
     THEN SortBy(shown, [p \in STRING \X STRING |->
                          CountOf(counts, p[2]) - CountOf(counts, p[1])])
     ELSE SortBy(shown, [p \in STRING \X STRING |-> CompareStrings(p[1], p[2])])

allStates == FacetList(stateCounts, statesSortBy)
allDistricts == FacetList(districtCounts, districtsSortBy)
allSubjects == FacetList(subjectCounts, subjectsSortBy)

\* line 175
hasActiveFilters ==
  \/ Len(selectedSubjects) > 0
  \/ Len(selectedStates) > 0
  \/ Len(selectedDistricts) > 0

Range(s) == {s[i] : i \in 1..Len(s)}

(***************************************************************************)
(* The map after initializeMap (main.js 48-585) and its info panel         *)
(* (InfoPanel.js).  Scales are in tenths (1x is 10, 2.5x is 25); of a zoom *)
(* transform only the scale k is kept; a transition started by             *)
(* svg.transition().call(zoom.transform, t) is modelled by its end, the    *)
(* zoom event that stores t.  Names that the panel shares with the book    *)
(* browser (selectedSubjects, selectedBook, filteredBooks, allSubjects,    *)
(* toggleSubject) carry the prefix panel.                                  *)
(***************************************************************************)
\* the district name of the military bases (main.js 356, 405)
DoDDistrict == "Department of Defense Educational Activitity"

\* a ban with its status
BanWith(s, d, status) == [state |-> s, district |-> d, ban_status |-> status]

\* the books of the map's sample data: BookA with a popularity level, BookB
\* with a ban of the military bases' district, BookC with a ban status
MapBookA == BookA @@ [popularityLevel |-> "Popular"]
MapBookB ==
  [BookB EXCEPT !.bans = Arr(<<Ban("Nation", "d2"), Ban("DoDEA", "d2"),
                               Ban("Nation", DoDDistrict)>>)]
MapBookC ==
  [BookC EXCEPT !.bans = Arr(<<BanWith("Nation", "d1", "Banned"),
                               Ban("TX", "d1"), Ban("TX", "d2")>>)]

\* a short dataset, and one long enough for the panel to show its filters
MapSizes == {MaxMapBooks - 6, MaxMapBooks}
MapDatasets == {Bulk(<<MapBookA, MapBookB, MapBookC>>, n) : n \in MapSizes}

\* the values of school_districts.json that main.js reads: the district name,
\* the county, and whether the centroid of the county's geometry is a pair
\* of numbers.  d2 and d3 share a county.
SchoolDistricts ==
  <<[District |-> "d1", countyId |-> 1, centroidOk |-> TRUE],
    [District |-> "d2", countyId |-> 2, centroidOk |-> TRUE],
    [District |-> "d3", countyId |-> 2, centroidOk |-> TRUE],
    [District |-> "d4", countyId |-> 3, centroidOk |-> FALSE]>>

\* the entries of mil_bases.json, with whether the projection has coordinates
\* for the base
MilBases == <<[name |-> "base", coordsOk |-> TRUE]>>

\* main.js 149-158 and 170: countyGroups[countyId]
districtsInCounty(data) ==
  SelectSeq(SchoolDistricts, LAMBDA other : other.countyId = data.countyId)

\* booksData.filter(book => book.bans && book.bans.some(ban => ban.district
\* === districtName)) (main.js 262, 405; InfoPanel.js 164, 175)
BannedBooksFor(bks, districtName) ==
  SelectSeq(bks, LAMBDA book :
    /\ IsArray(book, "bans")
    /\ \E j \in 1..Len(book.bans.items) :
         book.bans.items[j].district = districtName)

\* main.js 459
zoomLevels == <<10, 25, 50>>
\* main.js 463
ZOOM_THRESHOLD == 100
\* const newScale = 8 of the two delayed callbacks (main.js 296, 430)
newScale == 80
\* d3.zoomIdentity
zoomIdentity == [k |-> 10]
\* event.deltaY of the wheel events
WheelDeltas == {-100, -50, 50, 100}

\* array.indexOf(x): the zero-based position of x, -1 when x is no element
IndexOf(array, x) ==
  IF \E i \in 1..Len(array) : array[i] = x
  THEN (CHOOSE i \in 1..Len(array) :
          array[i] = x /\ \A j \in 1..(i - 1) : array[j] # x) - 1
  ELSE -1

\* array[index] as a sequence: the element alone, or nothing for undefined
ElementAt(array, index) ==
  IF index \in 0..(Len(array) - 1) THEN <<array[index + 1]>> ELSE <<>>

Abs(x) == IF x < 0 THEN -x ELSE x

\* a value is truthy: a field that is present, and not the empty string
Truthy(book, field) ==
  /\ field \in DOMAIN book
  /\ ~(book[field].type = "string" /\ book[field].str = "")

\* Array.isArray(book.subjects) ? book.subjects : [book.subjects], of a book
\* whose subjects are truthy (InfoPanel.js 36, 77)
SubjectsAsArray(book) ==
  IF book.subjects.type = "array" THEN book.subjects.items
  ELSE <<book.subjects.str>>

\* InfoPanel.js 72-95: the test of filteredBooks
PanelPasses(book, subjects, statuses, levels) ==
  /\ Len(subjects) > 0 =>
       /\ Truthy(book, "subjects")
       /\ \E i \in 1..Len(SubjectsAsArray(book)) :
            ArrayIncludes(subjects, SubjectsAsArray(book)[i])
  /\ Len(statuses) > 0 =>
       /\ IsArray(book, "bans")
       /\ \E j \in 1..Len(book.bans.items) :
            /\ "ban_status" \in DOMAIN book.bans.items[j]
            /\ ArrayIncludes(statuses, book.bans.items[j].ban_status)
  /\ Len(levels) > 0 =>
       /\ "popularityLevel" \in DOMAIN book
       /\ ArrayIncludes(levels, book.popularityLevel)

PanelFilter(bks, subjects, statuses, levels) ==
  SelectSeq(bks, LAMBDA book : PanelPasses(book, subjects, statuses, levels))

panelFilteredBooks ==
  PanelFilter(bannedBooks, panelSelectedSubjects, selectedBanStatus,
              selectedPopularityLevels)

\* InfoPanel.js 32-41: the counts object of allSubjects
PanelSubjectCounts(bks) ==
  CountFacet([k \in 1..Len(bks) |->
                IF Truthy(bks[k], "subjects") THEN SubjectsAsArray(bks[k])
                ELSE <<>>])

\* InfoPanel.js 42-48: the entries by count descending, then by localeCompare;
\* the subjects of the data are capitalised words without accents, which
\* localeCompare orders as their code units do
PanelAllSubjects(bks) ==
  LET counts == PanelSubjectCounts(bks)
      entries == [i \in 1..Len(counts) |->
                    [subject |-> counts[i].key, count |-> counts[i].n]]
  IN SortBy(entries, [p \in Range(entries) \X Range(entries) |->
                        IF p[2].count # p[1].count
                        THEN p[2].count - p[1].count
                        ELSE CompareStrings(p[1].subject, p[2].subject)])

panelAllSubjects == PanelAllSubjects(bannedBooks)

\* InfoPanel.js 50-58: the statuses in the order the Set met them; the data
\* has one status, which the sort() of line 57 leaves in place
allBanStatuses ==
  UniqueSeq(
    LET RECURSIVE F(_)
        F(k) ==
          IF k = 0 THEN <<>>
          ELSE LET bans == bannedBooks[k].bans.items
                   withStatus == SelectSeq(bans, LAMBDA b : "ban_status" \in DOMAIN b)
               IN F(k - 1) \o [j \in 1..Len(withStatus) |-> withStatus[j].ban_status]
    IN F(Len(bannedBooks)))

\* InfoPanel.js 59-71: the levels of the fixed order that a book has
allPopularityLevels ==
  SelectSeq(<<"Very Popular", "Popular", "Medium", "Less Popular">>,
            LAMBDA level : \E k \in 1..Len(bannedBooks) :
               /\ "popularityLevel" \in DOMAIN bannedBooks[k]
               /\ bannedBooks[k].popularityLevel = level)

\* InfoPanel.js 16-21
hasSelection == selectedItem # null
showFilters == Len(bannedBooks) > 5

\* what the template renders (InfoPanel.js 188, 208, 214, 284)
PanelView ==
  IF showingDistrictSelection THEN "district-selection"
  ELSE IF ~hasSelection THEN "select-a-location"
  ELSE IF panelSelectedBook # null THEN "book-detail"
  ELSE "book-list"

\* the info panel is on screen and renders the given view
PanelShows(view) == ~infoPanelHidden /\ PanelView = view

(***************************************************************************)
(* The by-state report's analyzeData (report main.js 645-687).  stateData  *)
(* is the sequence of its entries in insertion order; an entry holds the   *)
(* state, its subjectCounts, its totalBans and its districts, themselves   *)
(* entries in insertion order.                                             *)
(***************************************************************************)
\* the books of the report's sample data: BookF has bans and subjects that
\* are one string, BookG an empty subject and bans without state or district
BookF ==
  [id |-> "id6", subjects |-> Str("Fiction"), bans |-> Arr(<<Ban("TX", "d1")>>)]
BookG ==
  [id |-> "id7", subjects |-> Arr(<<"Fiction", "">>),
   bans |-> Arr(<<Ban("TX", ""), Ban("", "d1"), Ban("TX", "d2")>>)]

ReportBooks == {BookA, BookB, BookC, BookE, BookF, BookG}
ReportDatasets == SeqsUpTo(ReportBooks, MaxReportBooks)

\* the position of the entry of a key, 0 when there is none
EntryOf(entries, field, key) ==
  IF \E i \in 1..Len(entries) : entries[i][field] = key
  THEN CHOOSE i \in 1..Len(entries) : entries[i][field] = key
  ELSE 0

\* lines 675-680: the forEach over book.subjects, on one subjectCounts
CountSubjects(counts, subjects) ==
  IncrementAll(counts, SelectSeq(subjects, LAMBDA subject : subject # ""))

\* lines 665-684 on the districts of one state
AddBanToDistricts(districts, district, subjects) ==
  LET created ==
        IF EntryOf(districts, "district", district) = 0
        THEN Append(districts, [district |-> district, subjectCounts |-> <<>>,
                                totalBans |-> 0])
        ELSE districts
      at == EntryOf(created, "district", district)
  IN [created EXCEPT ![at] =
        [@ EXCEPT !.subjectCounts = CountSubjects(@, subjects),
                  !.totalBans = @ + 1]]

\* lines 652-685: the body of the forEach over book.bans
AddBan(stateData, ban, subjects) ==
  IF ban.state = "" \/ ban.district = "" THEN stateData
  ELSE LET created ==
             IF EntryOf(stateData, "state", ban.state) = 0
             THEN Append(stateData, [state |-> ban.state, districts |-> <<>>,
                                     subjectCounts |-> <<>>, totalBans |-> 0])
             ELSE stateData
           at == EntryOf(created, "state", ban.state)
       IN [created EXCEPT ![at] =
             [@ EXCEPT !.subjectCounts = CountSubjects(@, subjects),
                       !.districts = AddBanToDistricts(@, ban.district, subjects),
                       !.totalBans = @ + 1]]

\* mutant: a book whose subjects are no array is analyzed as one without
\* subjects
MutAnalyzeBookAnySubjects(stateData, book) ==
  IF ~IsArray(book, "bans") THEN stateData
  ELSE LET bans == book.bans.items
           subjects == IF IsArray(book, "subjects") THEN book.subjects.items
                       ELSE <<>>
           RECURSIVE F(_)
           F(k) == IF k = 0 THEN stateData
                   ELSE LET before == F(k - 1)
                        IN IF Len(before) >= 0
                           THEN AddBan(before, bans[k], subjects)
                           ELSE before
       IN F(Len(bans))

\* lines 648-686: the body of the forEach over books
AnalyzeBook(stateData, book) ==
  IF ~IsArray(book, "bans") \/ ~IsArray(book, "subjects") THEN stateData
  ELSE LET bans == book.bans.items
           \* stateData after the first k bans; the test makes TLC evaluate
           \* it before it goes on
           RECURSIVE F(_)
           F(k) == IF k = 0 THEN stateData
                   ELSE LET before == F(k - 1)
                        IN IF Len(before) >= 0
                           THEN AddBan(before, bans[k], book.subjects.items)
                           ELSE before
       IN F(Len(bans))

\* lines 645-687
analyzeData(bks) ==
  LET \* stateData after the books lo..hi were visited in order
      RECURSIVE F(_, _, _)
      F(stateData, lo, hi) ==
        IF lo > hi THEN stateData
        ELSE IF lo = hi THEN AnalyzeBook(stateData, bks[lo])
        ELSE LET mid == (lo + hi) \div 2
                 left == F(stateData, lo, mid)
             \* the test makes TLC evaluate left before it goes on
             IN IF Len(left) >= 0 THEN F(left, mid + 1, hi) ELSE left
  IN F(<<>>, 1, Len(bks))

(***************************************************************************)
(* The state after construction (App.vue 4-17) and the handlers.           *)
(***************************************************************************)
InitRefs ==
  /\ books = <<>>
  /\ loading = FALSE
  /\ selectedSubjects = <<>>
  /\ selectedStates = <<>>
  /\ selectedDistricts = <<>>
  /\ searchQuery = <<>>
  /\ statesSortBy = "count"
  /\ districtsSortBy = "count"
  /\ subjectsSortBy = "count"
  /\ currentPage = 1
  /\ selectedBook = null
  /\ showLoadPrompt = TRUE
  /\ dataLoaded = FALSE
  /\ fetchState = "idle"

\* main.js 11-13, InfoPanel.js 2-14 and the page as served: the welcome modal
\* shows, the spinner and the info panel are hidden, nothing is fetched, the
\* panel holds its initial data; the zoom variables have the values that
\* initializeMap declares them with (main.js 459-462)
InitMap ==
  /\ welcomeHidden = FALSE
  /\ spinnerHidden = TRUE
  /\ spinnerHTML = "spinner"
  /\ geoFetch = "idle"
  /\ dataFetch = "idle"
  /\ mapChain = "idle"
  /\ booksData = <<>>
  /\ windowBooksData = <<>>
  /\ initializeMapArg = null
  /\ mapLayers = {}
  /\ selectedItem = null
  /\ itemType = null
  /\ bannedBooks = <<>>
  /\ panelSelectedSubjects = <<>>
  /\ selectedBanStatus = <<>>
  /\ selectedPopularityLevels = <<>>
  /\ panelSelectedBook = null
  /\ showingDistrictSelection = FALSE
  /\ districtChoices = <<>>
  /\ infoPanelHidden = TRUE
  /\ currentZoomIndex = 0
  /\ currentTransform = zoomIdentity
  /\ accumulatedDelta = 0
  /\ zoomTimeouts = <<>>

\* the report page before init() runs
InitReport ==
  /\ reportAppHTML = ""
  /\ reportFetch = "idle"
  /\ reportStateData = <<>>

\* the file served at /data.json is one of the datasets
Init == InitRefs /\ InitMap /\ InitReport /\ dataJson \in Datasets

\* the file served at /data.json is one of the long datasets
InitBulk == InitRefs /\ InitMap /\ InitReport /\ dataJson \in BulkDatasets

\* the main content is rendered (template line 265)
MainShown == ~loading /\ dataLoaded

\* the top-level elements of the template that are rendered (lines 255, 263,
\* 265, 467), by class
RenderedElements ==
  {e \in {"load-prompt-overlay", "loading", "main-content", "modal-overlay"} :
     CASE e = "load-prompt-overlay" -> showLoadPrompt
       [] e = "loading" -> loading
       [] e = "main-content" -> MainShown
       [] e = "modal-overlay" -> selectedBook # null}

\* an element that tells the user of an error is rendered
BrowserShowsError == "error" \in RenderedElements

\* mutant: the value is pushed whether or not it is selected
MutToggleAlwaysPush(list, v) == Append(list, v)

\* indexOf(v) > -1 ? splice(index, 1) : push(v)
Toggle(list, v) ==
  IF ArrayIncludes(list, v)
  THEN LET index == CHOOSE i \in 1..Len(list) :
                      list[i] = v /\ \A j \in 1..(i - 1) : list[j] # v
       IN SubSeq(list, 1, index - 1) \o SubSeq(list, index + 1, Len(list))
  ELSE Append(list, v)

\* indexOf(v) > -1 ? splice(index, 1) : nothing
Remove(list, v) == IF ArrayIncludes(list, v) THEN Toggle(list, v) ELSE list

\* resetPage, lines 102-104
ResetPageValue == 1

\* loadData up to its first await (lines 19-23); the button of the load prompt
LoadData ==
  /\ showLoadPrompt
  /\ loading' = TRUE
  /\ showLoadPrompt' = FALSE
  /\ fetchState' = "pending"
  /\ UNCHANGED <<books, selectedSubjects, selectedStates, selectedDistricts,
                 searchQuery, statesSortBy, districtsSortBy, subjectsSortBy,
                 currentPage, selectedBook, dataLoaded, dataJson>>
  /\ UNCHANGED outsideBrowser

\* mutant: the render that follows sorts books.value itself by ban count
MutLoadResolvedSortsBooks ==
  /\ fetchState = "pending"
  /\ books' = Deref(dataJson, FilterSort(dataJson, <<>>, <<>>, <<>>, <<>>))
  /\ dataLoaded' = TRUE
  /\ loading' = FALSE
  /\ fetchState' = "resolved"
  /\ UNCHANGED <<selectedSubjects, selectedStates, selectedDistricts,
                 searchQuery, statesSortBy, districtsSortBy, subjectsSortBy,
                 currentPage, selectedBook, showLoadPrompt, dataJson>>
  /\ UNCHANGED outsideBrowser

\* the fetch and the parse succeed (lines 24-26)
LoadResolved ==
  /\ fetchState = "pending"
  /\ books' = dataJson
  /\ dataLoaded' = TRUE
  /\ loading' = FALSE
  /\ fetchState' = "resolved"
  /\ UNCHANGED <<selectedSubjects, selectedStates, selectedDistricts,
                 searchQuery, statesSortBy, districtsSortBy, subjectsSortBy,
                 currentPage, selectedBook, showLoadPrompt, dataJson>>
  /\ UNCHANGED outsideBrowser

\* the fetch or the parse throws (lines 27-30)
LoadRejected ==
  /\ fetchState = "pending"
  /\ loading' = FALSE
  /\ fetchState' = "rejected"
  /\ UNCHANGED <<books, selectedSubjects, selectedStates, selectedDistricts,
                 searchQuery, statesSortBy, districtsSortBy, subjectsSortBy,
                 currentPage, selectedBook, showLoadPrompt, dataLoaded,
                 dataJson>>
  /\ UNCHANGED outsideBrowser

\* lines 181-189; a checkbox of the subject list
toggleSubject ==
  /\ MainShown
  /\ \E subject \in Range(allSubjects) :
       selectedSubjects' = Toggle(selectedSubjects, subject)
  /\ currentPage' = ResetPageValue
  /\ UNCHANGED <<books, loading, selectedStates, selectedDistricts, searchQuery,
                 statesSortBy, districtsSortBy, subjectsSortBy, selectedBook,
                 showLoadPrompt, dataLoaded, fetchState, dataJson>>
  /\ UNCHANGED outsideBrowser

\* lines 191-199
toggleState ==
  /\ MainShown
  /\ \E state \in Range(allStates) :
       selectedStates' = Toggle(selectedStates, state)
  /\ currentPage' = ResetPageValue
  /\ UNCHANGED <<books, loading, selectedSubjects, selectedDistricts, searchQuery,
                 statesSortBy, districtsSortBy, subjectsSortBy, selectedBook,
                 showLoadPrompt, dataLoaded, fetchState, dataJson>>
  /\ UNCHANGED outsideBrowser

\* lines 201-209
toggleDistrict ==
  /\ MainShown
  /\ \E district \in Range(allDistricts) :
       selectedDistricts' = Toggle(selectedDistricts, district)
  /\ currentPage' = ResetPageValue
  /\ UNCHANGED <<books, loading, selectedSubjects, selectedStates, searchQuery,
                 statesSortBy, districtsSortBy, subjectsSortBy, selectedBook,
                 showLoadPrompt, dataLoaded, fetchState, dataJson>>
  /\ UNCHANGED outsideBrowser

\* lines 211-217; the x of an active-filter tag
removeSubject ==
  /\ MainShown
  /\ \E subject \in Range(selectedSubjects) :
       selectedSubjects' = Remove(selectedSubjects, subject)
  /\ currentPage' = ResetPageValue
  /\ UNCHANGED <<books, loading, selectedStates, selectedDistricts, searchQuery,
                 statesSortBy, districtsSortBy, subjectsSortBy, selectedBook,
                 showLoadPrompt, dataLoaded, fetchState, dataJson>>
  /\ UNCHANGED outsideBrowser

\* mutant: removeState without resetPage
MutRemoveStateNoReset ==
  /\ MainShown
  /\ \E state \in Range(selectedStates) :
       selectedStates' = Remove(selectedStates, state)
  /\ UNCHANGED <<books, loading, selectedSubjects, selectedDistricts, searchQuery,
                 statesSortBy, districtsSortBy, subjectsSortBy, selectedBook,
                 showLoadPrompt, dataLoaded, fetchState, currentPage, dataJson>>
  /\ UNCHANGED outsideBrowser

\* lines 219-225
removeState ==
  /\ MainShown
  /\ \E state \in Range(selectedStates) :
       selectedStates' = Remove(selectedStates, state)
  /\ currentPage' = ResetPageValue
  /\ UNCHANGED <<books, loading, selectedSubjects, selectedDistricts, searchQuery,
                 statesSortBy, districtsSortBy, subjectsSortBy, selectedBook,
                 showLoadPrompt, dataLoaded, fetchState, dataJson>>
  /\ UNCHANGED outsideBrowser

\* lines 227-233
removeDistrict ==
  /\ MainShown
  /\ \E district \in Range(selectedDistricts) :
       selectedDistricts' = Remove(selectedDistricts, district)
  /\ currentPage' = ResetPageValue
  /\ UNCHANGED <<books, loading, selectedSubjects, selectedStates, searchQuery,
                 statesSortBy, districtsSortBy, subjectsSortBy, selectedBook,
                 showLoadPrompt, dataLoaded, fetchState, dataJson>>
  /\ UNCHANGED outsideBrowser

\* mutant: clearFilters without searchQuery.value = ''
MutClearFiltersKeepQuery ==
  /\ MainShown
  /\ selectedSubjects' = <<>>
  /\ selectedStates' = <<>>
  /\ selectedDistricts' = <<>>
  /\ currentPage' = ResetPageValue
  /\ UNCHANGED <<books, loading, statesSortBy, districtsSortBy, subjectsSortBy,
                 selectedBook, showLoadPrompt, dataLoaded, fetchState,
                 dataJson, searchQuery>>
  /\ UNCHANGED outsideBrowser

\* lines 235-241
clearFilters ==
  /\ MainShown
  /\ selectedSubjects' = <<>>
  /\ selectedStates' = <<>>
  /\ selectedDistricts' = <<>>
  /\ searchQuery' = <<>>
  /\ currentPage' = ResetPageValue
  /\ UNCHANGED <<books, loading, statesSortBy, districtsSortBy, subjectsSortBy,
                 selectedBook, showLoadPrompt, dataLoaded, fetchState,
                 dataJson>>
  /\ UNCHANGED outsideBrowser

\* mutant: the search box without @input="resetPage"
MutSearchInputNoReset ==
  /\ MainShown
  /\ \E q \in Queries : searchQuery' = q
  /\ UNCHANGED <<books, loading, selectedSubjects, selectedStates,
                 selectedDistricts, statesSortBy, districtsSortBy, subjectsSortBy,
                 selectedBook, showLoadPrompt, dataLoaded, fetchState, currentPage,
                 dataJson>>
  /\ UNCHANGED outsideBrowser

\* template lines 268-274: v-model stores the text, @input calls resetPage
SearchInput ==
  /\ MainShown
  /\ \E q \in Queries : searchQuery' = q
  /\ currentPage' = ResetPageValue
  /\ UNCHANGED <<books, loading, selectedSubjects, selectedStates,
                 selectedDistricts, statesSortBy, districtsSortBy, subjectsSortBy,
                 selectedBook, showLoadPrompt, dataLoaded, fetchState,
                 dataJson>>
  /\ UNCHANGED outsideBrowser

OtherMode(mode) == IF mode = "count" THEN "alpha" ELSE "count"

\* template line 317
ToggleSubjectsSort ==
  /\ MainShown
  /\ subjectsSortBy' = OtherMode(subjectsSortBy)
  /\ UNCHANGED <<books, loading, selectedSubjects, selectedStates,
                 selectedDistricts, searchQuery, statesSortBy, districtsSortBy,
                 currentPage, selectedBook, showLoadPrompt, dataLoaded, fetchState,
                 dataJson>>
  /\ UNCHANGED outsideBrowser

\* template line 344
ToggleStatesSort ==
  /\ MainShown
  /\ statesSortBy' = OtherMode(statesSortBy)
  /\ UNCHANGED <<books, loading, selectedSubjects, selectedStates,
                 selectedDistricts, searchQuery, districtsSortBy, subjectsSortBy,
                 currentPage, selectedBook, showLoadPrompt, dataLoaded, fetchState,
                 dataJson>>
  /\ UNCHANGED outsideBrowser

\* template line 371
ToggleDistrictsSort ==
  /\ MainShown
  /\ districtsSortBy' = OtherMode(districtsSortBy)
  /\ UNCHANGED <<books, loading, selectedSubjects, selectedStates,
                 selectedDistricts, searchQuery, statesSortBy, subjectsSortBy,
                 currentPage, selectedBook, showLoadPrompt, dataLoaded, fetchState,
                 dataJson>>
  /\ UNCHANGED outsideBrowser

\* template lines 404-411 and 446-453: shown when totalPages > 1, disabled on page 1
PrevPage ==
  /\ MainShown
  /\ totalPages > 1
  /\ currentPage # 1
  /\ currentPage' = currentPage - 1
  /\ UNCHANGED <<books, loading, selectedSubjects, selectedStates,
                 selectedDistricts, searchQuery, statesSortBy, districtsSortBy,
                 subjectsSortBy, selectedBook, showLoadPrompt, dataLoaded,
                 fetchState, dataJson>>
  /\ UNCHANGED outsideBrowser

\* template lines 413-419 and 455-461: disabled on the last page
NextPage ==
  /\ MainShown
  /\ totalPages > 1
  /\ currentPage # totalPages
  /\ currentPage' = currentPage + 1
  /\ UNCHANGED <<books, loading, selectedSubjects, selectedStates,
                 selectedDistricts, searchQuery, statesSortBy, districtsSortBy,
                 subjectsSortBy, selectedBook, showLoadPrompt, dataLoaded,
                 fetchState, dataJson>>
  /\ UNCHANGED outsideBrowser

\* lines 243-245; a click on a card of the page
openBookModal ==
  /\ MainShown
  /\ \E book \in Range(paginatedBooks) : selectedBook' = book
  /\ UNCHANGED <<books, loading, selectedSubjects, selectedStates,
                 selectedDistricts, searchQuery, statesSortBy, districtsSortBy,
                 subjectsSortBy, currentPage, showLoadPrompt, dataLoaded,
                 fetchState, dataJson>>
  /\ UNCHANGED outsideBrowser

\* lines 247-249 and the Escape key handler, lines 35-39
closeModal ==
  /\ selectedBook # null
  /\ selectedBook' = null
  /\ UNCHANGED <<books, loading, selectedSubjects, selectedStates,
                 selectedDistricts, searchQuery, statesSortBy, districtsSortBy,
                 subjectsSortBy, currentPage, showLoadPrompt, dataLoaded,
                 fetchState, dataJson>>
  /\ UNCHANGED outsideBrowser

Next ==
  \/ LoadData
  \/ LoadResolved
  \/ LoadRejected
  \/ toggleSubject
  \/ toggleState
  \/ toggleDistrict
  \/ removeSubject
  \/ removeState
  \/ removeDistrict
  \/ clearFilters
  \/ SearchInput
  \/ ToggleSubjectsSort
  \/ ToggleStatesSort
  \/ ToggleDistrictsSort
  \/ PrevPage
  \/ NextPage
  \/ openBookModal
  \/ closeModal

Spec == Init /\ [][Next]_vars

\* the same program on the long datasets, where the list has several pages
SpecBulk == InitBulk /\ [][Next]_vars

\* the handlers that write what filteredBooks reads (books, the selection, the
\* query) or the page; the sort buttons and the modal write none of these
NextFilter ==
  \/ LoadData
  \/ LoadResolved
  \/ LoadRejected
  \/ toggleSubject
  \/ toggleState
  \/ toggleDistrict
  \/ removeSubject
  \/ removeState
  \/ removeDistrict
  \/ clearFilters
  \/ SearchInput
  \/ PrevPage
  \/ NextPage

\* the program while the user leaves the sort buttons and the cards alone
SpecFilter == Init /\ [][NextFilter]_vars

\* the handlers that write what the facet lists read: those above and the
\* three sort buttons; the modal writes none of it
NextFacets ==
  \/ NextFilter
  \/ ToggleSubjectsSort
  \/ ToggleStatesSort
  \/ ToggleDistrictsSort

\* the program while the user opens no card
SpecFacets == Init /\ [][NextFacets]_vars

(***************************************************************************)
(* The map app's load handler (main.js 16-47).  A fetch is "idle" before   *)
(* it is started, then "pending", then "fulfilled" or "rejected" (the      *)
(* request or the parse of the body failed).  mapChain is the position of  *)
(* the promise chain behind Promise.all.                                   *)
(***************************************************************************)
\* the parsed body of ./counties-albers-10m.json
UsTopology == [type |-> "Topology"]

\* Promise.all of the two fetches: rejected once one is, fulfilled once both are
PromiseAll(a, b) ==
  IF a = "rejected" \/ b = "rejected" THEN "rejected"
  ELSE IF a = "fulfilled" /\ b = "fulfilled" THEN "fulfilled"
  ELSE "pending"

\* lines 16-29: the click on load-map-btn, up to the start of both fetches
LoadMapClick ==
  /\ ~welcomeHidden
  /\ welcomeHidden' = TRUE
  /\ spinnerHidden' = FALSE
  /\ geoFetch' = "pending"
  /\ dataFetch' = "pending"
  /\ mapChain' = "pending"
  /\ UNCHANGED <<spinnerHTML, booksData, windowBooksData, initializeMapArg>>
  /\ UNCHANGED <<viewVars, browserVars, reportVars>>

\* line 27: the geometry is fetched and parsed
GeoFulfilled ==
  /\ geoFetch = "pending"
  /\ geoFetch' = "fulfilled"
  /\ UNCHANGED <<welcomeHidden, spinnerHidden, spinnerHTML, dataFetch, mapChain,
                 booksData, windowBooksData, initializeMapArg>>
  /\ UNCHANGED <<viewVars, browserVars, reportVars>>

\* line 27: the request for the geometry or its parse fails
GeoRejected ==
  /\ geoFetch = "pending"
  /\ geoFetch' = "rejected"
  /\ UNCHANGED <<welcomeHidden, spinnerHidden, spinnerHTML, dataFetch, mapChain,
                 booksData, windowBooksData, initializeMapArg>>
  /\ UNCHANGED <<viewVars, browserVars, reportVars>>

\* line 28: the dataset is fetched and parsed
DataFulfilled ==
  /\ dataFetch = "pending"
  /\ dataFetch' = "fulfilled"
  /\ UNCHANGED <<welcomeHidden, spinnerHidden, spinnerHTML, geoFetch, mapChain,
                 booksData, windowBooksData, initializeMapArg>>
  /\ UNCHANGED <<viewVars, browserVars, reportVars>>

\* line 28: the request for the dataset or its parse fails
DataRejected ==
  /\ dataFetch = "pending"
  /\ dataFetch' = "rejected"
  /\ UNCHANGED <<welcomeHidden, spinnerHidden, spinnerHTML, geoFetch, mapChain,
                 booksData, windowBooksData, initializeMapArg>>
  /\ UNCHANGED <<viewVars, browserVars, reportVars>>

\* lines 30-38: the first then, run when Promise.all is fulfilled
MapThenStore ==
  /\ mapChain = "pending"
  /\ PromiseAll(geoFetch, dataFetch) = "fulfilled"
  /\ booksData' = dataJson
  /\ windowBooksData' = dataJson
  /\ spinnerHidden' = TRUE
  /\ mapChain' = "stored"
  /\ UNCHANGED <<welcomeHidden, spinnerHTML, geoFetch, dataFetch, initializeMapArg>>
  /\ UNCHANGED <<viewVars, browserVars, reportVars>>

\* the spinner shows the error text of line 45
MapShowsError ==
  /\ ~spinnerHidden
  /\ spinnerHTML = "Error loading data. Please refresh the page."

\* mutant: initializeMap chained to the geometry fetch alone
MutInitializeOnGeometry ==
  /\ mapChain \in {"pending", "stored"}
  /\ geoFetch = "fulfilled"
  /\ initializeMapArg' = UsTopology
  /\ mapChain' = "initialized"
  /\ UNCHANGED <<welcomeHidden, spinnerHidden, spinnerHTML, geoFetch, dataFetch,
                 booksData, windowBooksData>>
  /\ UNCHANGED <<viewVars, browserVars, reportVars>>

\* lines 39-42: the second then, run with the value the first returned
MapThenInitialize ==
  /\ mapChain = "stored"
  /\ initializeMapArg' = UsTopology
  /\ mapChain' = "initialized"
  /\ UNCHANGED <<welcomeHidden, spinnerHidden, spinnerHTML, geoFetch, dataFetch,
                 booksData, windowBooksData>>
  /\ UNCHANGED <<viewVars, browserVars, reportVars>>

\* lines 43-46: the catch, run when Promise.all is rejected
MapCatch ==
  /\ mapChain = "pending"
  /\ PromiseAll(geoFetch, dataFetch) = "rejected"
  /\ spinnerHTML' = "Error loading data. Please refresh the page."
  /\ mapChain' = "failed"
  /\ UNCHANGED <<welcomeHidden, spinnerHidden, geoFetch, dataFetch,
                 booksData, windowBooksData, initializeMapArg>>
  /\ UNCHANGED <<viewVars, browserVars, reportVars>>

\* InfoPanel.js 98-107
setSelectedItem(item, type, bks) ==
  /\ selectedItem' = item
  /\ itemType' = type
  /\ bannedBooks' = bks
  /\ panelSelectedSubjects' = <<>>
  /\ selectedBanStatus' = <<>>
  /\ selectedPopularityLevels' = <<>>
  /\ panelSelectedBook' = null

\* InfoPanel.js 108-116
clearSelection ==
  /\ selectedItem' = null
  /\ itemType' = null
  /\ bannedBooks' = <<>>
  /\ panelSelectedSubjects' = <<>>
  /\ selectedBanStatus' = <<>>
  /\ selectedPopularityLevels' = <<>>
  /\ panelSelectedBook' = null

\* InfoPanel.js 160-172
showDistrictSelection(districts, bks) ==
  /\ districtChoices' =
       [j \in 1..Len(districts) |->
          [name |-> districts[j].District,
           count |-> Len(BannedBooksFor(bks, districts[j].District)),
           data |-> districts[j]]]
  /\ showingDistrictSelection' = TRUE
  /\ selectedItem' = null
  /\ panelSelectedBook' = null
  /\ UNCHANGED <<itemType, bannedBooks, panelSelectedSubjects,
                 selectedBanStatus, selectedPopularityLevels>>

\* main.js 140-147: the then of fetch('./school_districts.json') draws the
\* districts and registers their handlers
DistrictsDrawn ==
  /\ mapChain = "initialized"
  /\ "districts" \notin mapLayers
  /\ mapLayers' = mapLayers \cup {"districts"}
  /\ UNCHANGED <<panelVars, zoomVars>>
  /\ UNCHANGED loadVars
  /\ UNCHANGED <<browserVars, reportVars>>

\* main.js 326-334: the then of fetch('./mil_bases.json') draws the bases
BasesDrawn ==
  /\ mapChain = "initialized"
  /\ "bases" \notin mapLayers
  /\ mapLayers' = mapLayers \cup {"bases"}
  /\ UNCHANGED <<panelVars, zoomVars>>
  /\ UNCHANGED loadVars
  /\ UNCHANGED <<browserVars, reportVars>>

\* main.js 224-316: the click on a district's county; the callback of
\* setTimeout is queued with the centroid it closes over
DistrictClick ==
  /\ "districts" \in mapLayers
  /\ \E i \in 1..Len(SchoolDistricts) :
       LET data == SchoolDistricts[i]
       IN IF Len(districtsInCounty(data)) > 1
          THEN /\ showDistrictSelection(districtsInCounty(data), booksData)
               /\ infoPanelHidden' = FALSE
               /\ UNCHANGED zoomVars
          ELSE /\ Len(zoomTimeouts) < MaxTimeouts
               /\ setSelectedItem(data, "district",
                                  BannedBooksFor(booksData, data.District))
               /\ infoPanelHidden' = FALSE
               /\ zoomTimeouts' =
                    Append(zoomTimeouts, [pointOk |-> data.centroidOk])
               /\ UNCHANGED <<showingDistrictSelection, districtChoices,
                              currentZoomIndex, currentTransform,
                              accumulatedDelta>>
  /\ UNCHANGED mapLayers
  /\ UNCHANGED loadVars
  /\ UNCHANGED <<browserVars, reportVars>>

\* main.js 381-450: the click on a military base
BaseClick ==
  /\ "bases" \in mapLayers
  /\ Len(zoomTimeouts) < MaxTimeouts
  /\ \E i \in 1..Len(MilBases) :
       /\ setSelectedItem(MilBases[i], "base",
                          BannedBooksFor(booksData, DoDDistrict))
       /\ zoomTimeouts' =
            Append(zoomTimeouts, [pointOk |-> MilBases[i].coordsOk])
  /\ infoPanelHidden' = FALSE
  /\ UNCHANGED <<showingDistrictSelection, districtChoices, currentZoomIndex,
                 currentTransform, accumulatedDelta, mapLayers>>
  /\ UNCHANGED loadVars
  /\ UNCHANGED <<browserVars, reportVars>>

\* main.js 284-315 and 418-449: the callback of setTimeout, 300 ms after its
\* click; callbacks of equal delay run in the order of their clicks
ZoomTimeout ==
  /\ Len(zoomTimeouts) > 0
  /\ zoomTimeouts' = Tail(zoomTimeouts)
  /\ IF Head(zoomTimeouts).pointOk
     THEN /\ currentZoomIndex' = IndexOf(zoomLevels, newScale)
          /\ currentTransform' = [k |-> newScale]
     ELSE UNCHANGED <<currentZoomIndex, currentTransform>>
  /\ UNCHANGED <<accumulatedDelta, panelVars, mapLayers>>
  /\ UNCHANGED loadVars
  /\ UNCHANGED <<browserVars, reportVars>>

\* main.js 483-543: a wheel event over the map; the zoom handler (main.js
\* 468-480) skips a transform whose scale is not a number
Wheel ==
  /\ mapChain = "initialized"
  /\ \E deltaY \in WheelDeltas :
       LET accumulated == accumulatedDelta + deltaY
           index == IF accumulated < 0
                    THEN IF currentZoomIndex < Len(zoomLevels) - 1
                         THEN currentZoomIndex + 1 ELSE currentZoomIndex
                    ELSE IF currentZoomIndex > 0
                         THEN currentZoomIndex - 1 ELSE currentZoomIndex
           scale == ElementAt(zoomLevels, index)
       IN IF Abs(accumulated) >= ZOOM_THRESHOLD
          THEN /\ currentZoomIndex' = index
               /\ accumulatedDelta' = 0
               /\ currentTransform' =
                    IF scale # <<>> THEN [k |-> scale[1]] ELSE currentTransform
          ELSE /\ accumulatedDelta' = accumulated
               /\ UNCHANGED <<currentZoomIndex, currentTransform>>
  /\ UNCHANGED <<zoomTimeouts, panelVars, mapLayers>>
  /\ UNCHANGED loadVars
  /\ UNCHANGED <<browserVars, reportVars>>

\* main.js 548-580: the body of the svg's click handler for a click whose
\* target is the svg or a path that is neither district nor base
SvgClickHandler ==
  /\ clearSelection
  /\ infoPanelHidden' = TRUE
  /\ currentZoomIndex' = 0
  /\ currentTransform' = zoomIdentity
  /\ UNCHANGED <<showingDistrictSelection, districtChoices, accumulatedDelta,
                 zoomTimeouts, mapLayers>>
  /\ UNCHANGED loadVars
  /\ UNCHANGED <<browserVars, reportVars>>

\* a click on the empty map
EmptyMapClick ==
  /\ mapChain = "initialized"
  /\ SvgClickHandler

\* InfoPanel.js 128-135: the close button of the district chooser and of the
\* book list dispatches a click on the svg
closeOverlay ==
  /\ PanelShows("district-selection") \/ PanelShows("book-list")
  /\ SvgClickHandler

\* InfoPanel.js 173-181: a button of the district chooser
selectDistrictFromList ==
  /\ PanelShows("district-selection")
  /\ \E j \in 1..Len(districtChoices) :
       setSelectedItem(districtChoices[j].data, "district",
                       BannedBooksFor(windowBooksData, districtChoices[j].data.District))
  /\ showingDistrictSelection' = FALSE
  /\ UNCHANGED <<districtChoices, infoPanelHidden, zoomVars, mapLayers>>
  /\ UNCHANGED loadVars
  /\ UNCHANGED <<browserVars, reportVars>>

\* InfoPanel.js 136-143; a checkbox of the panel's subject filter
panelToggleSubject ==
  /\ PanelShows("book-list") /\ showFilters
  /\ \E i \in 1..Len(panelAllSubjects) :
       panelSelectedSubjects' =
         Toggle(panelSelectedSubjects, panelAllSubjects[i].subject)
  /\ UNCHANGED <<selectedItem, itemType, bannedBooks, selectedBanStatus,
                 selectedPopularityLevels, panelSelectedBook,
                 showingDistrictSelection, districtChoices, infoPanelHidden>>
  /\ UNCHANGED <<zoomVars, mapLayers>>
  /\ UNCHANGED loadVars
  /\ UNCHANGED <<browserVars, reportVars>>

\* InfoPanel.js 144-151
toggleBanStatus ==
  /\ PanelShows("book-list") /\ showFilters
  /\ \E status \in Range(allBanStatuses) :
       selectedBanStatus' = Toggle(selectedBanStatus, status)
  /\ UNCHANGED <<selectedItem, itemType, bannedBooks, panelSelectedSubjects,
                 selectedPopularityLevels, panelSelectedBook,
                 showingDistrictSelection, districtChoices, infoPanelHidden>>
  /\ UNCHANGED <<zoomVars, mapLayers>>
  /\ UNCHANGED loadVars
  /\ UNCHANGED <<browserVars, reportVars>>

\* InfoPanel.js 152-159
togglePopularityLevel ==
  /\ PanelShows("book-list") /\ showFilters
  /\ \E level \in Range(allPopularityLevels) :
       selectedPopularityLevels' = Toggle(selectedPopularityLevels, level)
  /\ UNCHANGED <<selectedItem, itemType, bannedBooks, panelSelectedSubjects,
                 selectedBanStatus, panelSelectedBook,
                 showingDistrictSelection, districtChoices, infoPanelHidden>>
  /\ UNCHANGED <<zoomVars, mapLayers>>
  /\ UNCHANGED loadVars
  /\ UNCHANGED <<browserVars, reportVars>>

\* InfoPanel.js 117-124; the click on a book of the list
selectBook ==
  /\ PanelShows("book-list")
  /\ \E i \in 1..Len(panelFilteredBooks) :
       panelSelectedBook' = panelFilteredBooks[i]
  /\ UNCHANGED <<selectedItem, itemType, bannedBooks, panelSelectedSubjects,
                 selectedBanStatus, selectedPopularityLevels,
                 showingDistrictSelection, districtChoices, infoPanelHidden>>
  /\ UNCHANGED <<zoomVars, mapLayers>>
  /\ UNCHANGED loadVars
  /\ UNCHANGED <<browserVars, reportVars>>

\* InfoPanel.js 125-127; the back button of the book's detail
backToList ==
  /\ PanelShows("book-detail")
  /\ panelSelectedBook' = null
  /\ UNCHANGED <<selectedItem, itemType, bannedBooks, panelSelectedSubjects,
                 selectedBanStatus, selectedPopularityLevels,
                 showingDistrictSelection, districtChoices, infoPanelHidden>>
  /\ UNCHANGED <<zoomVars, mapLayers>>
  /\ UNCHANGED loadVars
  /\ UNCHANGED <<browserVars, reportVars>>

(***************************************************************************)
(* The by-state report's init (report main.js, init and loadData).         *)
(***************************************************************************)
\* init up to its await: the loading text, the fetch started
ReportInit ==
  /\ reportFetch = "idle"
  /\ reportAppHTML' = "Loading data..."
  /\ reportFetch' = "pending"
  /\ UNCHANGED reportStateData
  /\ UNCHANGED <<browserVars, mapVars>>

\* the try block after the await: the report is rendered
ReportFulfilled ==
  /\ reportFetch = "pending"
  /\ reportFetch' = "fulfilled"
  /\ reportStateData' = analyzeData(dataJson)
  /\ reportAppHTML' = "container"
  /\ UNCHANGED <<browserVars, mapVars>>

\* the catch block: the error text is rendered
ReportRejected ==
  /\ reportFetch = "pending"
  /\ reportFetch' = "rejected"
  /\ reportAppHTML' = "Error loading data"
  /\ UNCHANGED reportStateData
  /\ UNCHANGED <<browserVars, mapVars>>

\* #app shows the error text of the catch block
ReportShowsError == reportAppHTML = "Error loading data"

\* the load of the three front-ends, each in its own page
NextLoad ==
  \/ LoadData
  \/ LoadResolved
  \/ LoadRejected
  \/ LoadMapClick
  \/ GeoFulfilled
  \/ GeoRejected
  \/ DataFulfilled
  \/ DataRejected
  \/ MapThenStore
  \/ MapThenInitialize
  \/ MapCatch
  \/ ReportInit
  \/ ReportFulfilled
  \/ ReportRejected

SpecLoad == Init /\ [][NextLoad]_vars

\* the file served at /data.json is one of the map's datasets
InitMapData == InitRefs /\ InitMap /\ InitReport /\ dataJson \in MapDatasets

\* the successful load of the map, then the clicks on the map and the
\* delayed zooms
NextMapClicks ==
  \/ LoadMapClick
  \/ GeoFulfilled
  \/ DataFulfilled
  \/ MapThenStore
  \/ MapThenInitialize
  \/ DistrictsDrawn
  \/ BasesDrawn
  \/ DistrictClick
  \/ BaseClick
  \/ ZoomTimeout
  \/ EmptyMapClick
  \/ closeOverlay
  \/ selectDistrictFromList

\* the map and its info panel, and the report beside it: the two views that
\* count subjects by place
NextPanel ==
  \/ NextMapClicks
  \/ panelToggleSubject
  \/ toggleBanStatus
  \/ togglePopularityLevel
  \/ selectBook
  \/ backToList
  \/ ReportInit
  \/ ReportFulfilled

SpecPanel == InitMapData /\ [][NextPanel]_vars

\* the map under clicks and wheel events
NextZoom ==
  \/ NextMapClicks
  \/ Wheel

SpecZoom == InitMapData /\ [][NextZoom]_vars

\* the file served at /data.json is one of the report's datasets
InitReportData ==
  InitRefs /\ InitMap /\ InitReport /\ dataJson \in ReportDatasets

NextReport ==
  \/ ReportInit
  \/ ReportFulfilled
  \/ ReportRejected

SpecReport == InitReportData /\ [][NextReport]_vars

(***************************************************************************)
(* Properties.                                                             *)
(***************************************************************************)
\* every facet value of the data, and one ("Nation") that is only ever raw
FacetValues == Range(CodeUnitOrder)

Max(a, b) == IF a >= b THEN a ELSE b

\* the book has an array under field
HasArray(book, field) == field \in DOMAIN book /\ book[field].type = "array"

SubjectsOfBook(book) ==
  IF HasArray(book, "subjects") THEN Range(book.subjects.items) ELSE {}

RawStatesOfBook(book) ==
  IF HasArray(book, "bans")
  THEN {book.bans.items[j].state : j \in 1..Len(book.bans.items)}
  ELSE {}

\* the states of the book's bans as the user sees them
ShownStatesOfBook(book) ==
  {IF st = "Nation" THEN "DoDEA" ELSE st : st \in RawStatesOfBook(book)}

DistrictsOfBook(book) ==
  IF HasArray(book, "bans")
  THEN {book.bans.items[j].district : j \in 1..Len(book.bans.items)}
  ELSE {}

\* C1: while subjects are selected, every book of filteredBooks has an array
\* of subjects that contains every selected subject (all of them, not any).
C1_SubjectsAll ==
  LET fb == filteredBooks
  IN Len(selectedSubjects) > 0 =>
       \A i \in 1..Len(fb) :
         /\ HasArray(fb[i], "subjects")
         /\ Range(selectedSubjects) \subseteq SubjectsOfBook(fb[i])

\* books A:[Fiction] and B:[Fiction, LGBTQ] loaded, both subjects selected,
\* only B left
C1_Witness ==
  /\ books = <<BookA, BookB>>
  /\ Range(selectedSubjects) = {"Fiction", "LGBTQ"}
  /\ filteredBooks = <<BookB>>

\* C2: while states are selected, every book of filteredBooks has, for each
\* selected state, a ban whose state with "Nation" read as "DoDEA" is that
\* state; and when "DoDEA" is the only active filter, every loaded book with a
\* raw "Nation" ban is in filteredBooks.
C2_StatesAll ==
  LET refs == filteredRefs
  IN /\ Len(selectedStates) > 0 =>
          \A i \in 1..Len(refs) :
            /\ HasArray(books[refs[i]], "bans")
            /\ Range(selectedStates) \subseteq ShownStatesOfBook(books[refs[i]])
     /\ ( /\ selectedStates = <<"DoDEA">>
          /\ selectedSubjects = <<>>
          /\ selectedDistricts = <<>>
          /\ searchQuery = <<>> ) =>
          \A n \in 1..Len(books) :
            "Nation" \in RawStatesOfBook(books[n]) => n \in Range(refs)

\* "DoDEA" selected alone, and the book whose only military ban is raw "Nation"
\* is listed
C2_Witness ==
  /\ selectedStates = <<"DoDEA">>
  /\ selectedSubjects = <<>>
  /\ selectedDistricts = <<>>
  /\ searchQuery = <<>>
  /\ BookC \in Range(books)
  /\ BookC \in Range(filteredBooks)

\* C3: each facet count is the number of books of filteredBooks that carry
\* the value at least once: subjects, states as shown, raw districts.
C3_DistinctBookCounts ==
  LET fb == filteredBooks
      sc == SubjectCountsOf(fb)
      tc == StateCountsOf(fb)
      dc == DistrictCountsOf(fb)
  IN \A v \in FacetValues :
       /\ CountOf(sc, v) = Cardinality({i \in 1..Len(fb) : v \in SubjectsOfBook(fb[i])})
       /\ CountOf(tc, v) = Cardinality({i \in 1..Len(fb) : v \in ShownStatesOfBook(fb[i])})
       /\ CountOf(dc, v) = Cardinality({i \in 1..Len(fb) : v \in DistrictsOfBook(fb[i])})

\* B (subjects Fiction, Fiction, LGBTQ; two bans that show as DoDEA, both in
\* d2) and C (two bans in d1, one in d2) are listed and each counts once per
\* value
C3_Witness ==
  /\ Range(filteredBooks) = {BookB, BookC}
  /\ Len(filteredBooks) = 2
  /\ CountOf(subjectCounts, "Fiction") = 1
  /\ CountOf(subjectCounts, "LGBTQ") = 2
  /\ CountOf(stateCounts, "DoDEA") = 2
  /\ CountOf(districtCounts, "d1") = 1
  /\ CountOf(districtCounts, "d2") = 2

\* C4: "Nation" is no key of stateCounts and no entry of allStates; the count
\* under "DoDEA" is the number of filtered books with a ban whose raw state is
\* "Nation" or "DoDEA", each book counted once.
C4_NationUnderDoDEA ==
  LET fb == filteredBooks
      tc == StateCountsOf(fb)
  IN /\ ~HasKey(tc, "Nation")
     /\ "Nation" \notin Range(FacetList(tc, statesSortBy))
     /\ CountOf(tc, "DoDEA") =
          Cardinality({i \in 1..Len(fb) :
                         RawStatesOfBook(fb[i]) \cap {"Nation", "DoDEA"} # {}})

\* only B is listed, whose bans are raw "Nation" and raw "DoDEA"
C4_Witness ==
  /\ filteredBooks = <<BookB>>
  /\ RawStatesOfBook(BookB) = {"Nation", "DoDEA"}
  /\ CountOf(stateCounts, "DoDEA") = 1
  /\ allStates = <<"DoDEA">>

\* the positions of the loaded books that satisfy every active clause
PassingNow ==
  {n \in 1..Len(books) :
     Passes(books[n], searchQuery, selectedSubjects, selectedStates, selectedDistricts)}

C6_SortedStable ==
  LET refs == filteredRefs
      count == [i \in 1..Len(refs) |-> BanCount(books[refs[i]])]
  IN \A i \in 1..(Len(refs) - 1) :
       /\ count[i] >= count[i + 1]
       /\ count[i] = count[i + 1] => refs[i] < refs[i + 1]

\* a long dataset of books with one ban and books with none, alternating:
\* the sort moved the banned ones to the front and kept both groups in order
C6_Witness ==
  /\ Len(books) > itemsPerPage
  /\ Len(filteredRefs) = Len(books)
  /\ BanCount(books[1]) = 1 /\ BanCount(books[2]) = 0 /\ BanCount(books[3]) = 1
  /\ filteredRefs[1] = 1
  /\ filteredRefs[2] = 3
  /\ filteredRefs[Len(books) - 1] < filteredRefs[Len(books)]
  /\ BanCount(books[filteredRefs[Len(books) - 1]]) = 0

\* the selection and the query
FilterState == <<selectedSubjects, selectedStates, selectedDistricts, searchQuery>>

\* C7: every step that changes the selection or the query leaves currentPage
\* at 1, whatever page was shown before.
C7_FilterChangeResetsPage ==
  [][FilterState' # FilterState => currentPage' = 1]_vars

\* a filter is active on a dataset that leaves several pages, and page 1 shows
C7_Witness ==
  /\ selectedStates = <<"TX">>
  /\ searchQuery = <<"B">>
  /\ totalPages = 2
  /\ currentPage = 1

\* C8: currentPage is at least 1 and at most max(1, totalPages).
C8_PageInRange ==
  /\ 1 <= currentPage
  /\ currentPage <= Max(1, totalPages)

\* the last of three pages shows, reached by the Next button
C8_Witness ==
  /\ totalPages = 3
  /\ currentPage = 3
  /\ selectedBook # null

\* C9: totalPages is the least number of pages of 100 that hold filteredBooks:
\* 0 for no book, 3 for 250 books.
C9_TotalPagesCeil ==
  LET n == Len(filteredBooks)
      pages == totalPages
  IN /\ pages * 100 >= n
     /\ (pages - 1) * 100 < n
     /\ n = 0 => pages = 0
     /\ n = 250 => pages = 3

C9_Witness ==
  /\ Len(filteredBooks) = 250
  /\ totalPages = 3

\* C10: page p of totalPages holds the books of filteredBooks at the 0-based
\* positions (p-1)*100 .. min(p*100, n)-1 in order: 100 books on every page
\* but the last, n - 100*(totalPages-1) on the last, and the pages in a row
\* are filteredBooks; paginatedBooks is the page of currentPage.
C10_PagesPartition ==
  LET fb == filteredBooks
      n == Len(fb)
      pages == Ceil(n, itemsPerPage)
      page(p) == PageOf(fb, p)
  IN /\ \A p \in 1..pages :
          /\ Len(page(p)) = IF p < pages THEN 100 ELSE n - 100 * (pages - 1)
          /\ \A k \in 1..Len(page(p)) : page(p)[k] = fb[(p - 1) * 100 + k]
     /\ \A i \in 1..n :
          \E p \in 1..pages : \E k \in 1..Len(page(p)) :
            /\ (p - 1) * 100 + k = i
            /\ page(p)[k] = fb[i]
     /\ paginatedBooks = page(currentPage)
     /\ Len(paginatedBooks) =
          IF currentPage * 100 <= n THEN 100 ELSE Max(0, n - (currentPage - 1) * 100)

\* page 3 of 250 books shows its 50 books
C10_Witness ==
  /\ Len(filteredBooks) = 250
  /\ currentPage = 3
  /\ Len(paginatedBooks) = 50
  /\ paginatedBooks[50] = filteredBooks[250]

\* C11: while districts are selected, every book of filteredBooks has an array
\* of bans and, for each selected district, a ban whose district field is
\* that very string; and when districts are the only active filter, every
\* loaded book with such bans is in filteredBooks.
C11_DistrictsAll ==
  LET refs == filteredRefs
  IN /\ Len(selectedDistricts) > 0 =>
          \A i \in 1..Len(refs) :
            /\ HasArray(books[refs[i]], "bans")
            /\ Range(selectedDistricts) \subseteq DistrictsOfBook(books[refs[i]])
     /\ ( /\ Len(selectedDistricts) > 0
          /\ selectedSubjects = <<>>
          /\ selectedStates = <<>>
          /\ searchQuery = <<>> ) =>
          \A n \in 1..Len(books) :
            Range(selectedDistricts) \subseteq DistrictsOfBook(books[n])
              => n \in Range(refs)

\* A (a ban in d1) and C (bans in d1 and d2) loaded, both districts selected,
\* only C left
C11_Witness ==
  /\ books = <<BookA, BookC>>
  /\ Range(selectedDistricts) = {"d1", "d2"}
  /\ filteredBooks = <<BookC>>

\* the two characters are the same letter, whatever their case
SameLetter(c, d) ==
  \E l \in {"a", "b", "c"} : {c, d} \subseteq {l, CASE l = "a" -> "A" [] l = "b" -> "B" [] l = "c" -> "C"}

\* the text holds the query at some offset, letter by letter, case ignored
ContainsIgnoringCase(text, q) ==
  \E off \in 0..(Len(text) - Len(q)) :
    \A k \in 1..Len(q) : SameLetter(text[off + k], q[k])

\* the book has the field and the field holds the query
FieldMatches(book, field, q) ==
  field \in DOMAIN book /\ ContainsIgnoringCase(book[field], q)

\* the book meets the three facet clauses of the current selection
MeetsFacets(book) ==
  /\ Range(selectedSubjects) \subseteq SubjectsOfBook(book)
  /\ Range(selectedStates) \subseteq ShownStatesOfBook(book)
  /\ Range(selectedDistricts) \subseteq DistrictsOfBook(book)

\* C12: a loaded book is in filteredBooks exactly when it meets the facet
\* clauses and, if the query is not empty, its title or its author holds the
\* query, case ignored; a missing title or author only means that this field
\* does not match; an empty query excludes no book.
C12_TextSearch ==
  LET refs == filteredRefs
  IN \A n \in 1..Len(books) :
       n \in Range(refs) <=>
         /\ MeetsFacets(books[n])
         /\ \/ searchQuery = <<>>
            \/ FieldMatches(books[n], "title", searchQuery)
            \/ FieldMatches(books[n], "author", searchQuery)

\* the query "aB": B (title "B", no author) does not match, C (no title,
\* author "aB") matches by its author
C12_Witness ==
  /\ books = <<BookB, BookC>>
  /\ searchQuery = <<"a", "B">>
  /\ "title" \notin DOMAIN BookC
  /\ filteredBooks = <<BookC>>

\* a fetch that has failed is not started again
NoRetryStep ==
  /\ fetchState = "rejected" => fetchState' = "rejected"
  /\ geoFetch = "rejected" => geoFetch' = "rejected"
  /\ dataFetch = "rejected" => dataFetch' = "rejected"
  /\ reportFetch = "rejected" => reportFetch' = "rejected"

\* each front-end whose fetch of the dataset has failed shows an error message
FailureShowsError ==
  /\ fetchState = "rejected" => BrowserShowsError
  /\ mapChain = "failed" => MapShowsError
  /\ reportFetch = "rejected" => ReportShowsError

\* C13: in the book browser, the map app and the report, once the fetch of
\* the dataset has failed an error message is visible, and the fetch is not
\* tried again.
C13_FailureShowsError ==
  []FailureShowsError /\ [][NoRetryStep]_vars

\* C14: the two fetches of the map app are started together; initializeMap has
\* been called only if both are fulfilled and booksData and window.booksData
\* are the dataset that was served; if either has failed it was not called.
C14_InitializeAfterBoth ==
  /\ (geoFetch = "idle") <=> (dataFetch = "idle")
  /\ initializeMapArg # null =>
       /\ geoFetch = "fulfilled"
       /\ dataFetch = "fulfilled"
       /\ booksData = dataJson
       /\ windowBooksData = dataJson
       /\ initializeMapArg = UsTopology
  /\ (geoFetch = "rejected" \/ dataFetch = "rejected") => initializeMapArg = null

\* both fetches fulfilled, two books stored, initializeMap called
C14_Witness ==
  /\ initializeMapArg = UsTopology
  /\ booksData = <<BookA, BookB>>
  /\ windowBooksData = <<BookA, BookB>>
  /\ spinnerHidden

\* C15: a clearFilters step leaves the three selections empty, the query
\* empty and currentPage 1, leaves books, the three sort modes and
\* selectedBook as they were, and filteredBooks then holds every loaded book.
C15_ClearFilters ==
  [][clearFilters =>
       /\ selectedSubjects' = <<>>
       /\ selectedStates' = <<>>
       /\ selectedDistricts' = <<>>
       /\ searchQuery' = <<>>
       /\ currentPage' = 1
       /\ books' = books
       /\ statesSortBy' = statesSortBy
       /\ districtsSortBy' = districtsSortBy
       /\ subjectsSortBy' = subjectsSortBy
       /\ selectedBook' = selectedBook
       /\ \A after \in {FilterSort(books', searchQuery', selectedSubjects',
                                    selectedStates', selectedDistricts')} :
            /\ Len(after) = Len(books)
            /\ Range(after) = 1..Len(books)]_vars

\* a subject and a query hide a book, a sort mode is alphabetical and a book
\* is open: the state clearFilters acts on
C15_Witness ==
  /\ MainShown
  /\ selectedSubjects # <<>>
  /\ searchQuery # <<>>
  /\ Len(filteredBooks) < Len(books)
  /\ subjectsSortBy = "alpha"
  /\ selectedBook # null

C17_Idempotent ==
  LET fb == filteredBooks
      again == FilterSort(fb, searchQuery, selectedSubjects, selectedStates,
                          selectedDistricts)
  IN Deref(fb, again) = fb /\ again = [i \in 1..Len(fb) |-> i]

\* district d1 selected: C (three bans) listed before A (one ban), against
\* the order served, and filtering that list again keeps it
C17_Witness ==
  /\ books = <<BookA, BookC>>
  /\ selectedDistricts = <<"d1">>
  /\ filteredBooks = <<BookC, BookA>>
  /\ FilterSort(filteredBooks, searchQuery, selectedSubjects, selectedStates,
                selectedDistricts) = <<1, 2>>

\* C18: with no subject, state or district selected and an empty query,
\* filteredBooks holds every loaded book exactly once, in non-increasing
\* order of ban count, books of equal ban count in the order of the books
\* array.
C18_PassThrough ==
  LET refs == filteredRefs
  IN ( /\ selectedSubjects = <<>>
       /\ selectedStates = <<>>
       /\ selectedDistricts = <<>>
       /\ searchQuery = <<>> ) =>
       /\ Len(refs) = Len(books)
       /\ \A n \in 1..Len(books) :
            Cardinality({i \in 1..Len(refs) : refs[i] = n}) = 1
       /\ \A i, j \in 1..Len(refs) :
            i < j =>
              \/ BanCount(books[refs[i]]) > BanCount(books[refs[j]])
              \/ /\ BanCount(books[refs[i]]) = BanCount(books[refs[j]])
                 /\ refs[i] < refs[j]

\* D (no bans) served before C (three bans): nothing is selected, both are
\* listed, C first
C18_Witness ==
  /\ books = <<BookD, BookC>>
  /\ selectedSubjects = <<>>
  /\ selectedStates = <<>>
  /\ selectedDistricts = <<>>
  /\ searchQuery = <<>>
  /\ filteredBooks = <<BookC, BookD>>

\* the query is empty or the book's title or author holds it
MeetsQuery(book) ==
  \/ searchQuery = <<>>
  \/ FieldMatches(book, "title", searchQuery)
  \/ FieldMatches(book, "author", searchQuery)

\* C19: a loaded book whose subjects (resp. bans) is absent or no array is
\* never listed while a subject (resp. a state or a district) is selected, is
\* listed while none is and it meets the other clauses, adds nothing to the
\* subject (resp. state and district) counts, and sorts as a book of 0 bans,
\* behind every book that has a ban.
C19_AbsentData ==
  LET refs == filteredRefs
      fb == Deref(books, refs)
      withSubjects == SelectSeq(fb, LAMBDA b : HasArray(b, "subjects"))
      withBans == SelectSeq(fb, LAMBDA b : HasArray(b, "bans"))
  IN /\ \A n \in 1..Len(books) :
          /\ ~HasArray(books[n], "subjects") =>
               n \in Range(refs) <=>
                 /\ selectedSubjects = <<>>
                 /\ MeetsFacets(books[n])
                 /\ MeetsQuery(books[n])
          /\ ~HasArray(books[n], "bans") =>
               /\ n \in Range(refs) <=>
                    /\ selectedStates = <<>>
                    /\ selectedDistricts = <<>>
                    /\ MeetsFacets(books[n])
                    /\ MeetsQuery(books[n])
               /\ BanCount(books[n]) = 0
     /\ SubjectCountsOf(fb) = SubjectCountsOf(withSubjects)
     /\ StateCountsOf(fb) = StateCountsOf(withBans)
     /\ DistrictCountsOf(fb) = DistrictCountsOf(withBans)
     /\ \A i, j \in 1..Len(fb) :
          (i < j /\ ~HasArray(fb[i], "bans")) =>
            (HasArray(fb[j], "bans") => fb[j].bans.items = <<>>)

\* E (subjects the string "Fiction", bans empty) is listed behind A while the
\* query "a" is the only filter, and "Fiction" counts A alone
C19_Witness ==
  /\ books = <<BookE, BookA>>
  /\ searchQuery = <<"a">>
  /\ selectedSubjects = <<>>
  /\ filteredBooks = <<BookA, BookE>>
  /\ CountOf(subjectCounts, "Fiction") = 1

\* the list holds exactly the values of positive count, each once, in the
\* order of the mode
FacetListOk(list, counts, sortBy) ==
  /\ Range(list) = {v \in FacetValues : CountOf(counts, v) > 0}
  /\ Len(list) = Cardinality(Range(list))
  /\ \A i, j \in 1..Len(list) :
       i < j =>
         IF sortBy = "count"
         THEN CountOf(counts, list[i]) >= CountOf(counts, list[j])
         ELSE Rank(list[i]) < Rank(list[j])

FacetListsOk ==
  LET fb == filteredBooks
  IN /\ FacetListOk(allSubjects, SubjectCountsOf(fb), subjectsSortBy)
     /\ FacetListOk(allStates, StateCountsOf(fb), statesSortBy)
     /\ FacetListOk(allDistricts, DistrictCountsOf(fb), districtsSortBy)

\* the three lists shown for the listed books fb under the three sort modes
FacetListsOf(fb, subjectsMode, statesMode, districtsMode) ==
  <<FacetList(SubjectCountsOf(fb), subjectsMode),
    FacetList(StateCountsOf(fb), statesMode),
    FacetList(DistrictCountsOf(fb), districtsMode)>>

\* a step of a sort button keeps the members of its own list and leaves the
\* other two lists, filteredBooks and currentPage alone
SortToggleStep ==
  (ToggleSubjectsSort \/ ToggleStatesSort \/ ToggleDistrictsSort) =>
    /\ currentPage' = currentPage
    /\ \A refsBefore \in {filteredRefs} :
       \A refsAfter \in {FilterSort(books', searchQuery', selectedSubjects',
                                    selectedStates', selectedDistricts')} :
       \A fbBefore \in {Deref(books, refsBefore)} :
       \A fbAfter \in {Deref(books', refsAfter)} :
       \A before \in {FacetListsOf(fbBefore, subjectsSortBy, statesSortBy,
                                    districtsSortBy)} :
       \A after \in {FacetListsOf(fbAfter, subjectsSortBy', statesSortBy',
                                   districtsSortBy')} :
         /\ fbAfter = fbBefore
         /\ \A g \in 1..3 : Range(after[g]) = Range(before[g])
         /\ ToggleSubjectsSort => after[2] = before[2] /\ after[3] = before[3]
         /\ ToggleStatesSort => after[1] = before[1] /\ after[3] = before[3]
         /\ ToggleDistrictsSort => after[1] = before[1] /\ after[2] = before[2]

CarriedSubjects(book) ==
  IF "subjects" \notin DOMAIN book THEN {}
  ELSE IF book.subjects.type = "array" THEN Range(book.subjects.items)
  ELSE {book.subjects.str} \ {""}

\* C21: in the map's info panel, every book of filteredBooks carries every
\* selected subject ("has ALL").
C21_PanelSubjectsAll ==
  \A i \in 1..Len(panelFilteredBooks) :
    Range(panelSelectedSubjects) \subseteq CarriedSubjects(panelFilteredBooks[i])

\* the positions of the books with the subject and with a ban in the state
\* (and, when a district is given, in that district) that the report reads
BooksWithSubjectIn(bks, subject, state, districtsOrAny) ==
  {k \in 1..Len(bks) :
     /\ HasArray(bks[k], "bans") /\ HasArray(bks[k], "subjects")
     /\ subject \in Range(bks[k].subjects.items)
     /\ \E j \in 1..Len(bks[k].bans.items) :
          /\ bks[k].bans.items[j].state = state
          /\ bks[k].bans.items[j].district # ""
          /\ bks[k].bans.items[j].district \in districtsOrAny}

\* every subject count of the report, of a state or of a district, is the
\* number of distinct books
ReportCountsBooks ==
  reportFetch = "fulfilled" =>
    \A i \in 1..Len(reportStateData) :
      LET ofState == reportStateData[i]
      IN /\ \A c \in 1..Len(ofState.subjectCounts) :
              ofState.subjectCounts[c].n =
                Cardinality(BooksWithSubjectIn(dataJson, ofState.subjectCounts[c].key,
                                               ofState.state, STRING))
         /\ \A d \in 1..Len(ofState.districts) :
              \A c \in 1..Len(ofState.districts[d].subjectCounts) :
                ofState.districts[d].subjectCounts[c].n =
                  Cardinality(BooksWithSubjectIn(
                    dataJson, ofState.districts[d].subjectCounts[c].key,
                    ofState.state, {ofState.districts[d].district}))

\* every subject count of the panel is the number of distinct books
PanelCountsBooks ==
  \A i \in 1..Len(panelAllSubjects) :
    panelAllSubjects[i].count =
      Cardinality({k \in 1..Len(bannedBooks) :
                     panelAllSubjects[i].subject \in CarriedSubjects(bannedBooks[k])})

\* C22: in the report and in the map's info panel a subject's count is the
\* number of distinct books: a repeated subject, or several bans of one book
\* in the same state or district, add 1.
C22_CountsPerDistinctBook == ReportCountsBooks /\ PanelCountsBooks

\* C23: currentZoomIndex is always a valid index of zoomLevels, so that the
\* scale the wheel handler looks up is one of 1, 2.5 and 5, never undefined.
C23_ZoomIndexValid ==
  /\ currentZoomIndex \in 0..(Len(zoomLevels) - 1)
  /\ ElementAt(zoomLevels, currentZoomIndex) \in {<<10>>, <<25>>, <<50>>}

\* a callback of setTimeout runs while the panel is closed and nothing is
\* selected
TimeoutAfterClose ==
  /\ infoPanelHidden
  /\ selectedItem = null
  /\ Len(zoomTimeouts) > 0
  /\ zoomTimeouts' = Tail(zoomTimeouts)

\* C24: a zoom callback that runs after an empty-map click has closed the
\* panel, and before the next click on a district or a base, leaves the map
\* at the zoom it has: it does not zoom to 8x while nothing is selected.
C24_CloseCancelsZoom ==
  [][TimeoutAfterClose => UNCHANGED <<currentZoomIndex, currentTransform>>]_vars

\* the panel never shows the district chooser over a selected item
SelectionShowsList == selectedItem # null => ~showingDistrictSelection

\* a panel that clearSelection has closed does not keep the chooser
ClosedPanelHasNoChooser == infoPanelHidden => ~showingDistrictSelection

\* C25: showingDistrictSelection is false whenever selectedItem is not null,
\* and is false after clearSelection: a district or base selected by a click
\* on the map shows its book list, not a stale district chooser.
C25_PanelModeConsistent == SelectionShowsList /\ ClosedPanelHasNoChooser

(***************************************************************************)
(* The book browser's selection lists.                                     *)
(***************************************************************************)
\* C26: the displayed count of every selected value, of any facet, is
\* filteredBooks.length (a missing count read as 0).
C26_SelectedCountIsTotal ==
  LET total == Len(filteredBooks)
      sc == subjectCounts
      tc == stateCounts
      dc == districtCounts
  IN /\ \A v \in Range(selectedSubjects) : CountOf(sc, v) = total
     /\ \A v \in Range(selectedStates) : CountOf(tc, v) = total
     /\ \A v \in Range(selectedDistricts) : CountOf(dc, v) = total

\* a district is selected that both books have, one of them in two bans: its
\* count is 2, the number of listed books, and another district's is 1
C26_Witness ==
  /\ Len(books) = 2
  /\ selectedDistricts = <<"d1">>
  /\ selectedStates = <<"TX">>
  /\ Len(filteredBooks) = 2
  /\ CountOf(districtCounts, "d1") = 2
  /\ CountOf(districtCounts, "d2") = 1
  /\ CountOf(stateCounts, "DoDEA") = 1

NoDuplicates(list) ==
  \A i \in 1..Len(list) : \A j \in 1..Len(list) : list[i] = list[j] => i = j

\* the list without the value, the order of the others kept
Without(list, v) == SelectSeq(list, LAMBDA x : x # v)

\* what holds of one selection list in every state: no value twice; toggling
\* any value twice gives the same set of values; removing a value that is not
\* selected changes nothing
SelectionListOk(list) ==
  /\ NoDuplicates(list)
  /\ \A v \in FacetValues :
       /\ Range(Toggle(Toggle(list, v), v)) = Range(list)
       /\ v \notin Range(list) => Remove(list, v) = list

\* a selection list changes in a step: it is cleared with the other two and
\* the query, or one value is added at its end or taken out
SelectionListStep(before, after) ==
  \/ after = before
  \/ /\ after = <<>>
     /\ selectedSubjects' = <<>> /\ selectedStates' = <<>>
     /\ selectedDistricts' = <<>> /\ searchQuery' = <<>>
  \/ \E v \in FacetValues :
       IF v \in Range(before) THEN after = Without(before, v)
       ELSE after = Append(before, v)

\* a step that is no clearFilters changes at most one of the three lists, and
\* with it only currentPage
SelectionFrame ==
  LET changed == {i \in 1..3 :
                    <<selectedSubjects, selectedStates, selectedDistricts>>[i] #
                    <<selectedSubjects', selectedStates', selectedDistricts'>>[i]}
  IN changed # {} =>
       \/ /\ selectedSubjects' = <<>> /\ selectedStates' = <<>>
          /\ selectedDistricts' = <<>> /\ searchQuery' = <<>>
          /\ UNCHANGED <<books, loading, statesSortBy, districtsSortBy,
                         subjectsSortBy, selectedBook, showLoadPrompt,
                         dataLoaded, fetchState, dataJson, outsideBrowser>>
       \/ /\ Cardinality(changed) = 1
          /\ UNCHANGED <<books, loading, searchQuery, statesSortBy,
                         districtsSortBy, subjectsSortBy, selectedBook,
                         showLoadPrompt, dataLoaded, fetchState, dataJson,
                         outsideBrowser>>

SelectionStep ==
  /\ SelectionListStep(selectedSubjects, selectedSubjects')
  /\ SelectionListStep(selectedStates, selectedStates')
  /\ SelectionListStep(selectedDistricts, selectedDistricts')
  /\ SelectionFrame

\* C27: no selection list holds a value twice; toggleX(v) adds v when absent
\* and removes it when present, so that toggling twice restores the set of
\* selected values; removeX of a value not selected changes nothing; each
\* operation changes only its own facet's list and currentPage.
C27_SelectionLists ==
  /\ [](/\ SelectionListOk(selectedSubjects)
        /\ SelectionListOk(selectedStates)
        /\ SelectionListOk(selectedDistricts))
  /\ [][SelectionStep]_vars

\* two subjects have been toggled on, and a state beside them
C27_Witness ==
  /\ selectedSubjects = <<"Fiction", "LGBTQ">>
  /\ selectedStates = <<"DoDEA">>
  /\ selectedDistricts = <<>>
  /\ currentPage = 1

\* the permutations of a list without duplicates
Perms(list) ==
  {p \in [1..Len(list) -> Range(list)] : Range(p) = Range(list)}

\* the positions that pass the filter under the given selections
FilteredSet(subjects, states, districts) ==
  Range(FilterSort(books, searchQuery, subjects, states, districts))

\* C28: for the books and the query of any state, one more value in any of
\* the three selections adds no book to filteredBooks, one value less removes
\* none, and the order of the values in a selection does not change
\* filteredBooks.
C28_FilterMonotone ==
  LET now == FilteredSet(selectedSubjects, selectedStates, selectedDistricts)
  IN /\ \A v \in FacetValues :
          /\ FilteredSet(Append(selectedSubjects, v), selectedStates,
                         selectedDistricts) \subseteq now
          /\ FilteredSet(selectedSubjects, Append(selectedStates, v),
                         selectedDistricts) \subseteq now
          /\ FilteredSet(selectedSubjects, selectedStates,
                         Append(selectedDistricts, v)) \subseteq now
          /\ now \subseteq FilteredSet(Without(selectedSubjects, v),
                                       selectedStates, selectedDistricts)
          /\ now \subseteq FilteredSet(selectedSubjects,
                                       Without(selectedStates, v),
                                       selectedDistricts)
          /\ now \subseteq FilteredSet(selectedSubjects, selectedStates,
                                       Without(selectedDistricts, v))
     /\ \A ps \in Perms(selectedSubjects) :
          \A pt \in Perms(selectedStates) :
            \A pd \in Perms(selectedDistricts) :
              FilterSort(books, searchQuery, ps, pt, pd) = filteredRefs

\* two states are selected and one of two books has both: one more state
\* drops the other book, and the two orders of the states list the same book
C28_Witness ==
  /\ Len(books) = 2
  /\ Len(selectedStates) = 2
  /\ Len(filteredBooks) = 1
  /\ Cardinality(FilteredSet(selectedSubjects, SubSeq(selectedStates, 1, 1),
                             selectedDistricts)) = 2

(***************************************************************************)
(* The by-state report's totals.                                           *)
(***************************************************************************)
\* the bans that count, as pairs of the book's and the ban's position: the
\* book's bans and subjects are arrays, the ban has a state and a district
CountedBans(bks) ==
  UNION {{<<k, j>> : j \in {j \in 1..Len(bks[k].bans.items) :
                              /\ bks[k].bans.items[j].state # ""
                              /\ bks[k].bans.items[j].district # ""}} :
         k \in {k \in 1..Len(bks) :
                  HasArray(bks[k], "bans") /\ HasArray(bks[k], "subjects")}}

BanAt(bks, pair) == bks[pair[1]].bans.items[pair[2]]

\* the sum of f[1], ..., f[n]
RECURSIVE SumTo(_, _)
SumTo(f, n) == IF n = 0 THEN 0 ELSE f[n] + SumTo(f, n - 1)

\* the totals of one state's entry are the sums over its districts, and its
\* bans are the counted bans of that state
StateEntryOk(ofState, counted) ==
  LET districts == ofState.districts
      subjects == {ofState.subjectCounts[c].key : c \in 1..Len(ofState.subjectCounts)}
                  \cup UNION {{districts[d].subjectCounts[c].key :
                                  c \in 1..Len(districts[d].subjectCounts)} :
                              d \in 1..Len(districts)}
  IN /\ ofState.state # ""
     /\ ofState.totalBans =
          SumTo([d \in 1..Len(districts) |-> districts[d].totalBans], Len(districts))
     /\ ofState.totalBans =
          Cardinality({b \in counted : BanAt(dataJson, b).state = ofState.state})
     /\ \A subject \in subjects :
          CountOf(ofState.subjectCounts, subject) =
            SumTo([d \in 1..Len(districts) |->
                     CountOf(districts[d].subjectCounts, subject)], Len(districts))
     /\ \A d \in 1..Len(districts) :
          /\ districts[d].district # ""
          /\ districts[d].totalBans =
               Cardinality({b \in counted :
                              /\ BanAt(dataJson, b).state = ofState.state
                              /\ BanAt(dataJson, b).district = districts[d].district})

\* C29: in the result of analyzeData every state's totalBans is the sum of
\* its districts' totalBans, every subject count of a state is the sum of
\* that subject's counts over its districts, and the bans counted are those
\* with a state and a district of the books whose bans and subjects are both
\* arrays.
C29_ReportTotals ==
  reportFetch = "fulfilled" =>
    LET counted == CountedBans(dataJson)
    IN /\ {reportStateData[i].state : i \in 1..Len(reportStateData)} =
            {BanAt(dataJson, b).state : b \in counted}
       /\ NoDuplicates([i \in 1..Len(reportStateData) |-> reportStateData[i].state])
       /\ \A i \in 1..Len(reportStateData) :
            StateEntryOk(reportStateData[i], counted)

\* the report of a book whose subjects are one string, with a ban in TX, and
\* of a book with three bans, two of them in TX in two districts: TX has the
\* two bans of the second book
C29_Witness ==
  /\ reportFetch = "fulfilled"
  /\ dataJson = <<BookF, BookC>>
  /\ \E i \in 1..Len(reportStateData) :
       /\ reportStateData[i].state = "TX"
       /\ reportStateData[i].totalBans = 2
       /\ Len(reportStateData[i].districts) = 2
       /\ CountOf(reportStateData[i].subjectCounts, "LGBTQ") = 4

====
